---------------------------- MODULE Spec2Model ----------------------------
(***************************************************************************)
(* Model of the real-time monitoring engine of LogInvestigator-Agent:      *)
(* src/backend/logic/monitors/real_time_monitor.py, class RealTimeMonitor. *)
(*                                                                         *)
(* The controller (start_monitoring, stop_monitoring, add_alert_callback)  *)
(* runs on the caller's thread; every watcher and the analysis loop is a   *)
(* daemon thread.  A thread takes one step of the model per access to the  *)
(* shared state (the monitoring flag, the queue, the callback list); the   *)
(* queue operations put_nowait / get_nowait / empty are atomic, as         *)
(* queue.Queue makes them, and nothing else is.                            *)
(*                                                                         *)
(* Text is a sequence of one-character strings, so that lower(), strip()   *)
(* and the substring test are computed and not assumed.                    *)
(***************************************************************************)
EXTENDS Integers, Sequences, FiniteSets, TLC

(***************************************************************************)
(* Bounds of the model.                                                    *)
(***************************************************************************)
\* queue.Queue(maxsize=1000): the capacity of log_buffer, scaled down
MaxSize == 2
\* total number of lines handed to _process_log_line in one behaviour
MaxLines == 4
\* total number of threads spawned in one behaviour
MaxThreads == 3
\* number of add_alert_callback calls in one behaviour
MaxCallbacks == 2
\* number of lines appended to the file of a run that watches one file
MaxAppended == 2

(***************************************************************************)
(* Text.                                                                   *)
(***************************************************************************)
Upper == <<"A","B","C","D","E","F","G","H","I","J","K","L","M",
           "N","O","P","Q","R","S","T","U","V","W","X","Y","Z">>
LowerOf == <<"a","b","c","d","e","f","g","h","i","j","k","l","m",
             "n","o","p","q","r","s","t","u","v","w","x","y","z">>

\* a lower() that leaves every character as it is
SameChar(c) == c

\* str.lower() on one character
LowerChar(c) ==
    IF \E k \in 1..26 : Upper[k] = c
    THEN LowerOf[CHOOSE k \in 1..26 : Upper[k] = c]
    ELSE c

\* str.lower()
Lower(s) == [k \in 1..Len(s) |-> LowerChar(s[k])]

\* the characters str.strip() removes
Whitespace == {" ", "\n", "\t"}

RECURSIVE LStrip(_)
LStrip(s) == IF s # <<>> /\ Head(s) \in Whitespace THEN LStrip(Tail(s)) ELSE s

RECURSIVE RStrip(_)
RStrip(s) ==
    IF s # <<>> /\ s[Len(s)] \in Whitespace
    THEN RStrip(SubSeq(s, 1, Len(s) - 1))
    ELSE s

\* str.strip()
Strip(s) == RStrip(LStrip(s))

\* Python's  p in s  on strings
Contains(p, s) ==
    \E k \in 0..(Len(s) - Len(p)) : SubSeq(s, k + 1, k + Len(p)) = p

\* the list __init__ assigns to self.critical_patterns
DefaultPatterns ==
    << <<"e","r","r","o","r">>,
       <<"e","x","c","e","p","t","i","o","n">>,
       <<"f","a","i","l","e","d">>,
       <<"t","i","m","e","o","u","t">>,
       <<"c","o","n","n","e","c","t","i","o","n"," ","r","e","f","u","s","e","d">>,
       <<"o","u","t"," ","o","f"," ","m","e","m","o","r","y">>,
       <<"d","i","s","k"," ","f","u","l","l">>,
       <<"s","e","r","v","i","c","e"," ","u","n","a","v","a","i","l","a","b","l","e">>,
       <<"c","r","a","s","h">>,
       <<"s","e","g","m","e","n","t","a","t","i","o","n"," ","f","a","u","l","t">>,
       <<"o","o","m">>,
       <<"p","a","n","i","c">>,
       <<"f","a","t","a","l">> >>

\* deployment_patterns of monitor_deployment_logs
DeploymentPatterns ==
    << <<"d","e","p","l","o","y","m","e","n","t"," ","f","a","i","l","e","d">>,
       <<"r","o","l","l","b","a","c","k">>,
       <<"h","e","a","l","t","h"," ","c","h","e","c","k"," ","f","a","i","l","e","d">>,
       <<"s","e","r","v","i","c","e"," ","u","n","a","v","a","i","l","a","b","l","e">>,
       <<"c","o","n","n","e","c","t","i","o","n"," ","r","e","f","u","s","e","d">>,
       <<"t","i","m","e","o","u","t">> >>

\* production_patterns of monitor_production_logs
ProductionPatterns ==
    << <<"o","u","t"," ","o","f"," ","m","e","m","o","r","y">>,
       <<"d","i","s","k"," ","f","u","l","l">>,
       <<"d","a","t","a","b","a","s","e"," ","c","o","n","n","e","c","t","i","o","n"," ","f","a","i","l","e","d">>,
       <<"a","u","t","h","e","n","t","i","c","a","t","i","o","n"," ","f","a","i","l","e","d">>,
       <<"r","a","t","e"," ","l","i","m","i","t"," ","e","x","c","e","e","d","e","d">>,
       <<"s","e","r","v","i","c","e"," ","d","o","w","n">> >>

\* pipeline_patterns of monitor_pipeline_logs
PipelinePatterns ==
    << <<"b","u","i","l","d"," ","f","a","i","l","e","d">>,
       <<"t","e","s","t"," ","f","a","i","l","e","d">>,
       <<"d","e","p","l","o","y","m","e","n","t"," ","f","a","i","l","e","d">>,
       <<"l","i","n","t"," ","e","r","r","o","r">>,
       <<"s","e","c","u","r","i","t","y"," ","s","c","a","n"," ","f","a","i","l","e","d">>,
       <<"d","e","p","e","n","d","e","n","c","y"," ","c","o","n","f","l","i","c","t">> >>

\* self.critical_patterns is kept as the sequence of the lists it was built
\* from: the list of __init__, then every list .extend() appended
Vocabulary(name) ==
    CASE name = "default" -> DefaultPatterns
      [] name = "deployment" -> DeploymentPatterns
      [] name = "production" -> ProductionPatterns
      [] name = "pipeline" -> PipelinePatterns

RECURSIVE PatternList(_)
\* the patterns of self.critical_patterns, in order
PatternList(names) ==
    IF names = <<>> THEN <<>>
    ELSE Vocabulary(Head(names)) \o PatternList(Tail(names))

\* any(pattern in line_lower for pattern in self.critical_patterns)
critical_found(line, patterns) ==
    LET line_lower == Lower(line)
    IN  \E k \in 1..Len(patterns) : Contains(patterns[k], line_lower)

\* str.split('\n')
RECURSIVE Split(_)
Split(s) ==
    IF \E k \in 1..Len(s) : s[k] = "\n"
    THEN LET k == CHOOSE j \in 1..Len(s) :
                      s[j] = "\n" /\ \A m \in 1..(j - 1) : s[m] # "\n"
         IN  <<SubSeq(s, 1, k - 1)>> \o Split(SubSeq(s, k + 1, Len(s)))
    ELSE <<s>>

DigitChar == <<"0","1","2","3","4","5","6","7","8","9">>

\* str() of a non-negative integer
RECURSIVE Digits(_)
Digits(n) ==
    IF n < 10 THEN <<DigitChar[n + 1]>>
    ELSE Digits(n \div 10) \o <<DigitChar[(n % 10) + 1]>>

\* str() of the float psutil reports, for a whole number of percent
FormatPercent(v) == Digits(v) \o <<".","0">>

CpuPrefix ==
    <<"C","R","I","T","I","C","A","L",":"," ","H","i","g","h"," ","C","P","U"," ",
      "u","s","a","g","e"," ","d","e","t","e","c","t","e","d",":"," ">>
MemoryPrefix ==
    <<"C","R","I","T","I","C","A","L",":"," ","H","i","g","h"," ","m","e","m","o","r","y"," ",
      "u","s","a","g","e"," ","d","e","t","e","c","t","e","d",":"," ">>
DiskPrefix ==
    <<"C","R","I","T","I","C","A","L",":"," ","H","i","g","h"," ","d","i","s","k"," ",
      "u","s","a","g","e"," ","d","e","t","e","c","t","e","d",":"," ">>

\* the f-string of the metric whose sample is v
MetricLine(metric, v) ==
    (CASE metric = "cpu"  -> CpuPrefix
       [] metric = "mem"  -> MemoryPrefix
       [] metric = "disk" -> DiskPrefix) \o FormatPercent(v) \o <<"%">>

(***************************************************************************)
(* The environment the model draws from.                                   *)
(***************************************************************************)
\* what readline() returns: a line with its newline, or <<>> at end of file
RawLines == { <<"O","O","M","\n">>, <<"\n">>, <<>> }

\* the paths a caller passes, and the lists it passes them in
Paths == {"a.log", "b.log"}
PathLists == { <<>>, <<"a.log","b.log">> }

\* what psutil samples, in percent
MetricValues == {50, 95}

\* the standard output of kubectl logs
KubectlOutputs == { <<>>, <<"p","a","n","i","c","\n"," ","\n","u","p">> }

\* the observers a caller registers: one that returns and one that raises
Callbacks == {"ok", "raises"}

\* the values MONITOR_BUFFER_SIZE and MONITOR_ALERT_THRESHOLD are set to
ConfigPairs == { <<1, 2>>, <<2, 1>>, <<2, 2>> }

\* what ai_analyzer.analyze_logs does: returns a text, returns None, raises
AiOutcomes == {"text", "none", "raise"}

\* the same with MONITOR_ALERT_THRESHOLD=0 added, which int() accepts
CycleConfigs == ConfigPairs \cup { <<2, 0>> }

\* the text it returns
AnalysisText == <<"o", "k">>

(***************************************************************************)
(* The queue.                                                              *)
(***************************************************************************)
\* queue.Queue.full()
Full(q) == Len(q) >= MaxSize

\* a put_nowait that does not look at maxsize
put_unbounded(q, e) == [ok |-> TRUE, q |-> Append(q, e)]

\* the put_nowait of a queue.LifoQueue, whose get takes what was put last
put_lifo(q, e) ==
    IF Full(q) THEN [ok |-> FALSE, q |-> q] ELSE [ok |-> TRUE, q |-> <<e>> \o q]

\* queue.Queue.put_nowait: appends, or raises queue.Full and changes nothing
put_nowait(q, e) ==
    IF Full(q) THEN [ok |-> FALSE, q |-> q] ELSE [ok |-> TRUE, q |-> Append(q, e)]

\* a get_nowait that takes the newest entry instead of the oldest
get_newest(q) ==
    IF q = <<>> THEN [ok |-> FALSE, item |-> <<>>, q |-> q]
    ELSE [ok |-> TRUE, item |-> <<q[Len(q)]>>, q |-> SubSeq(q, 1, Len(q) - 1)]

\* a get_nowait that returns the head and leaves it in the queue
get_peek(q) ==
    IF q = <<>> THEN [ok |-> FALSE, item |-> <<>>, q |-> q]
    ELSE [ok |-> TRUE, item |-> <<Head(q)>>, q |-> q]

\* queue.Queue.get_nowait: removes the head, or raises queue.Empty
get_nowait(q) ==
    IF q = <<>> THEN [ok |-> FALSE, item |-> <<>>, q |-> q]
    ELSE [ok |-> TRUE, item |-> <<Head(q)>>, q |-> Tail(q)]

(***************************************************************************)
(* The state of one RealTimeMonitor and of the threads it has spawned.     *)
(***************************************************************************)
VARIABLES
    monitoring,         \* self.monitoring
    log_buffer,         \* self.log_buffer, head first
    alert_callbacks,    \* self.alert_callbacks, in registration order
    critical_patterns,  \* self.critical_patterns
    observer,           \* self.observer: has start() / stop() been called
    buffer_size,        \* self.buffer_size  (MONITOR_BUFFER_SIZE)
    alert_threshold,    \* self.alert_threshold  (MONITOR_ALERT_THRESHOLD)
    threads,            \* the threads spawned and not yet ended, in spawn order
    clock,              \* the number of lines processed so far
    lastCall,           \* history: the last call on the controller, and its end
    issue_count,        \* self.issue_count
    last_analysis       \* self.last_analysis

vars == <<monitoring, log_buffer, alert_callbacks, critical_patterns, observer,
          buffer_size, alert_threshold, threads, clock, lastCall,
          issue_count, last_analysis>>

NoEntry == [id |-> 0, message |-> <<>>, source |-> <<>>,
            critical |-> FALSE, level |-> "INFO"]

NoAlert == [kind |-> "none", id |-> 0, title |-> <<>>, content |-> <<>>]

\* line[:100]
TitleWidth == 100

\* the emoji the titles begin with, each one character of the text
PoliceLight == "U+1F6A8"
BarChart == "U+1F4CA"

CriticalIssueDetected ==
    <<"C","R","I","T","I","C","A","L"," ","I","S","S","U","E"," ",
      "D","E","T","E","C","T","E","D",":"," ">>

\* f"<police light> CRITICAL ISSUE DETECTED: {line[:100]}..."
CriticalTitle(line) ==
    <<PoliceLight, " ">> \o CriticalIssueDetected
        \o SubSeq(line, 1, IF Len(line) < TitleWidth THEN Len(line) ELSE TitleWidth)
        \o <<".", ".", ".">>

\* "<bar chart> LOG ANALYSIS UPDATE"
AnalysisTitle ==
    <<BarChart, " ",
      "L","O","G"," ","A","N","A","L","Y","S","I","S"," ","U","P",
      "D","A","T","E">>

\* the alert of _send_alert(title, content); id stands for the log entry
\* that is the content of a critical alert
Alert(kind, id, title, content) ==
    [kind |-> kind, id |-> id, title |-> title, content |-> content]

\* threading.Thread(target=..., args=...), not yet scheduled
Thread(kind, path) ==
    [kind |-> kind, path |-> path,
     pc |-> IF kind = "file" THEN "begin" ELSE "loop", ret |-> "loop",
     entry |-> NoEntry, alert |-> NoAlert, i |-> 0, solo |-> 0,
     sent |-> <<>>, got |-> <<>>,
     logs |-> <<>>, calls |-> 0, asked |-> <<>>, pending |-> <<>>,
     slept |-> TRUE, regs |-> 0]

Tids == 1..Len(threads)

\* thread t returns from its target: it is no longer among the threads
Ended(t) ==
    [k \in 1..(Len(threads) - 1) |-> IF k < t THEN threads[k] ELSE threads[k + 1]]

\* a log_entry whose level is WARN when no pattern is found
log_entry_warn(id, line, source, patterns) ==
    LET found == critical_found(line, patterns)
    IN  [id |-> id, message |-> line, source |-> source,
         critical |-> found, level |-> IF found THEN "ERROR" ELSE "WARN"]

\* log_entry of _process_log_line; id stands for the timestamp
log_entry(id, line, source, patterns) ==
    LET found == critical_found(line, patterns)
    IN  [id |-> id, message |-> line, source |-> source,
         critical |-> found, level |-> IF found THEN "ERROR" ELSE "INFO"]

(***************************************************************************)
(* The controller: calls made on the caller's thread.                      *)
(***************************************************************************)
\* the file watchers start_monitoring spawns: one per path that exists
FileThreads(log_paths, exists) ==
    LET Exists(p) == p \in exists
        found == SelectSeq(log_paths, Exists)
    IN  [k \in 1..Len(found) |-> Thread("file", found[k])]

\* a start_monitoring that does not ask os.path.exists
NewThreadsAnyPath(a) ==
    (IF a.watch_files /\ a.log_paths # <<>>
        THEN FileThreads(a.log_paths, {a.log_paths[k] : k \in DOMAIN a.log_paths})
        ELSE <<>>)
    \o (IF a.watch_system THEN <<Thread("system", "")>> ELSE <<>>)
    \o (IF a.watch_kubernetes THEN <<Thread("k8s", "")>> ELSE <<>>)
    \o <<Thread("analysis", "")>>

\* the threads start_monitoring spawns, in the order it starts them
NewThreads(a) ==
    (IF a.watch_files /\ a.log_paths # <<>>
        THEN FileThreads(a.log_paths, a.exists) ELSE <<>>)
    \o (IF a.watch_system THEN <<Thread("system", "")>> ELSE <<>>)
    \o (IF a.watch_kubernetes THEN <<Thread("k8s", "")>> ELSE <<>>)
    \o <<Thread("analysis", "")>>

\* a start_monitoring without its early return
NeverActive == FALSE

\* the early return of start_monitoring
AlreadyActive == monitoring

\* the paths of a list
Range(f) == {f[k] : k \in DOMAIN f}

\* the calls of start_monitoring: its arguments, and which of the paths
\* os.path.exists finds
StartArgs ==
    {a \in [log_paths : PathLists, exists : SUBSET Paths, watch_files : BOOLEAN,
            watch_system : BOOLEAN, watch_kubernetes : BOOLEAN] :
        a.exists \subseteq Range(a.log_paths)}

\* the calls that watch one file, which is there
OneFileArgs ==
    {a \in StartArgs : /\ a.log_paths # <<>> /\ a.exists = {"a.log"}
                       /\ a.watch_files
                       /\ ~a.watch_system /\ ~a.watch_kubernetes}

\* the calls that watch files only, every file being there
FileArgs ==
    {a \in StartArgs : /\ a.log_paths # <<>> /\ a.exists = Range(a.log_paths)
                       /\ a.watch_files
                       /\ ~a.watch_system /\ ~a.watch_kubernetes}

\* the call spawns no more threads than the model has room for
Room(a, max) == AlreadyActive \/ Len(threads) + Len(NewThreads(a)) <= max

\* the monitor is idle and no thread of an earlier run is left
Fresh == ~AlreadyActive /\ threads = <<>>

start_monitoring(a) ==
    /\ lastCall' = [op |-> "start", active |-> monitoring, result |-> "returned"]
    /\ IF AlreadyActive
       THEN UNCHANGED <<monitoring, threads>>
       ELSE /\ monitoring' = TRUE
            /\ threads' = threads \o NewThreads(a)
    /\ UNCHANGED <<log_buffer, alert_callbacks, critical_patterns, observer,
                   buffer_size, alert_threshold, clock,
                   issue_count, last_analysis>>

\* threading.Thread.join of the observer thread: a thread that was never
\* started cannot be joined
ObserverJoin(o) == IF o.started THEN "returned" ELSE "RuntimeError"

\* a stop_monitoring that clears the flag after the observer has been
\* stopped and joined
stop_monitoring_late ==
    /\ observer' = [observer EXCEPT !.stopped = TRUE]
    /\ lastCall' = [op |-> "stop", active |-> monitoring,
                    result |-> ObserverJoin(observer')]
    /\ monitoring' = IF ObserverJoin(observer') = "returned" THEN FALSE
                     ELSE monitoring
    /\ UNCHANGED <<log_buffer, alert_callbacks, critical_patterns,
                   buffer_size, alert_threshold, threads, clock,
                   issue_count, last_analysis>>

stop_monitoring ==
    /\ monitoring' = FALSE
    /\ observer' = [observer EXCEPT !.stopped = TRUE]
    /\ lastCall' = [op |-> "stop", active |-> monitoring,
                    result |-> ObserverJoin(observer')]
    /\ UNCHANGED <<log_buffer, alert_callbacks, critical_patterns,
                   buffer_size, alert_threshold, threads, clock,
                   issue_count, last_analysis>>

\* a registry that, like a set, keeps one copy of a callback
add_alert_callback_once(c) ==
    /\ Len(alert_callbacks) < MaxCallbacks
    /\ alert_callbacks' = IF c \in Range(alert_callbacks) THEN alert_callbacks
                          ELSE Append(alert_callbacks, c)
    /\ lastCall' = [op |-> "add", active |-> monitoring, result |-> "returned"]
    /\ UNCHANGED <<monitoring, log_buffer, critical_patterns, observer,
                   buffer_size, alert_threshold, threads, clock,
                   issue_count, last_analysis>>

add_alert_callback(c) ==
    /\ Len(alert_callbacks) < MaxCallbacks
    /\ alert_callbacks' = Append(alert_callbacks, c)
    /\ lastCall' = [op |-> "add", active |-> monitoring, result |-> "returned"]
    /\ UNCHANGED <<monitoring, log_buffer, critical_patterns, observer,
                   buffer_size, alert_threshold, threads, clock,
                   issue_count, last_analysis>>

\* a get_status that reports self.buffer_size for the key "buffer_size"
get_status_capacity ==
    /\ lastCall' = [op |-> "status", active |-> monitoring, result |-> "returned",
                    status |-> [monitoring |-> monitoring,
                                buffer_size |-> buffer_size,
                                issue_count |-> issue_count,
                                last_analysis |-> last_analysis,
                                alert_callbacks |-> Len(alert_callbacks)]]
    /\ UNCHANGED <<monitoring, log_buffer, alert_callbacks, critical_patterns,
                   observer, buffer_size, alert_threshold, threads, clock,
                   issue_count, last_analysis>>

\* get_status: the dict it returns
get_status ==
    /\ lastCall' = [op |-> "status", active |-> monitoring, result |-> "returned",
                    status |-> [monitoring |-> monitoring,
                                buffer_size |-> Len(log_buffer),
                                issue_count |-> issue_count,
                                last_analysis |-> last_analysis,
                                alert_callbacks |-> Len(alert_callbacks)]]
    /\ UNCHANGED <<monitoring, log_buffer, alert_callbacks, critical_patterns,
                   observer, buffer_size, alert_threshold, threads, clock,
                   issue_count, last_analysis>>

(***************************************************************************)
(* _process_log_line and _send_alert, run by whichever thread calls them.  *)
(***************************************************************************)
\* history: thread t has operated on the queue, which ends every other
\* thread's run of consecutive enqueues; done says t has finished an enqueue
\* (runs are counted up to MaxSize + 1)
Queued(ths, t, done) ==
    [k \in DOMAIN ths |->
        IF k # t THEN [ths[k] EXCEPT !.solo = 0]
        ELSE IF done /\ ths[k].solo <= MaxSize
             THEN [ths[k] EXCEPT !.solo = @ + 1]
             ELSE ths[k]]

\* the thread returns from _process_log_line or _send_alert to its loop
Return(th) ==
    [th EXCEPT !.pc = th.ret, !.entry = NoEntry, !.alert = NoAlert, !.i = 0,
               !.regs = 0]

\* if critical_found: self._send_alert(...)
AfterEnqueue(th) ==
    IF th.entry.critical
    THEN [th EXCEPT !.pc = "send", !.i = 0, !.sent = <<>>,
                    !.regs = Len(alert_callbacks),
                    !.alert = Alert("critical", th.entry.id,
                                    CriticalTitle(th.entry.message),
                                    th.entry.message)]
    ELSE Return(th)

\* a _process_log_line that alerts on a critical line without having tried
\* to put its entry
ProcessLogLineAlertsFirst(t, th, line, source, ret) ==
    LET e  == log_entry(clock + 1, line, source, PatternList(critical_patterns))
        r  == IF e.critical THEN [ok |-> TRUE, q |-> log_buffer]
                            ELSE put_nowait(log_buffer, e)
        me == [th EXCEPT !.entry = e, !.ret = ret]
    IN  /\ clock < MaxLines
        /\ clock' = clock + 1
        /\ log_buffer' = r.q
        /\ threads' = Queued([threads EXCEPT ![t] =
                                  IF r.ok THEN AfterEnqueue(me)
                                          ELSE [me EXCEPT !.pc = "evict"]],
                              t, r.ok)
        /\ UNCHANGED <<monitoring, alert_callbacks, critical_patterns, observer,
                       buffer_size, alert_threshold, lastCall,
                       issue_count, last_analysis>>

\* a _process_log_line that counts the critical lines in issue_count
ProcessLogLineCounts(t, th, line, source, ret) ==
    LET e  == log_entry(clock + 1, line, source, PatternList(critical_patterns))
        r  == put_nowait(log_buffer, e)
        me == [th EXCEPT !.entry = e, !.ret = ret]
    IN  /\ clock < MaxLines
        /\ clock' = clock + 1
        /\ log_buffer' = r.q
        /\ threads' = Queued([threads EXCEPT ![t] =
                                  IF r.ok THEN AfterEnqueue(me)
                                          ELSE [me EXCEPT !.pc = "evict"]],
                              t, r.ok)
        /\ UNCHANGED <<monitoring, alert_callbacks, critical_patterns, observer,
                       buffer_size, alert_threshold, lastCall, last_analysis>>
        /\ issue_count' = IF e.critical THEN issue_count + 1 ELSE issue_count

\* _process_log_line of one line, up to its first put_nowait;
\* th is the calling thread t with its own locals already updated
ProcessLogLine(t, th, line, source, ret) ==
    LET e  == log_entry(clock + 1, line, source, PatternList(critical_patterns))
        r  == put_nowait(log_buffer, e)
        me == [th EXCEPT !.entry = e, !.ret = ret]
    IN  /\ clock < MaxLines
        /\ clock' = clock + 1
        /\ log_buffer' = r.q
        /\ threads' = Queued([threads EXCEPT ![t] =
                                  IF r.ok THEN AfterEnqueue(me)
                                          ELSE [me EXCEPT !.pc = "evict"]],
                              t, r.ok)
        /\ UNCHANGED <<monitoring, alert_callbacks, critical_patterns, observer,
                       buffer_size, alert_threshold, lastCall,
                       issue_count, last_analysis>>

\* except queue.Full: self.log_buffer.get_nowait(), and on queue.Empty: pass
Evict(t) ==
    LET th == threads[t]
        r  == get_nowait(log_buffer)
    IN  /\ th.pc = "evict"
        /\ log_buffer' = r.q
        /\ threads' = Queued([threads EXCEPT ![t] =
                                  IF r.ok THEN [th EXCEPT !.pc = "reput"]
                                          ELSE AfterEnqueue(th)],
                              t, ~r.ok)
        /\ UNCHANGED <<monitoring, alert_callbacks, critical_patterns, observer,
                       buffer_size, alert_threshold, clock, lastCall,
                       issue_count, last_analysis>>

\* the second put_nowait; its queue.Full is caught by the outer except, which
\* logs and returns
Reput(t) ==
    LET th == threads[t]
        r  == put_nowait(log_buffer, th.entry)
    IN  /\ th.pc = "reput"
        /\ log_buffer' = r.q
        /\ threads' = Queued([threads EXCEPT ![t] =
                                  IF r.ok THEN AfterEnqueue(th) ELSE Return(th)],
                              t, TRUE)
        /\ UNCHANGED <<monitoring, alert_callbacks, critical_patterns, observer,
                       buffer_size, alert_threshold, clock, lastCall,
                       issue_count, last_analysis>>

\* a dispatch that tries a callback a second time
CalledTwice(th, k) ==
    LET call == [to |-> k, kind |-> th.alert.kind, id |-> th.alert.id]
    IN  [th EXCEPT !.sent = @ \o <<call, call>>, !.got = @ \o <<call, call>>]

\* history: callback number k has been called with the alert of th; sent is
\* the calls of the thread's last _send_alert, got those of all of them, and
\* regs the number of callbacks there were when this _send_alert began
Called(th, k) ==
    LET call == [to |-> k, kind |-> th.alert.kind, id |-> th.alert.id]
    IN  [th EXCEPT !.sent = Append(@, call), !.got = Append(@, call)]

\* a _send_alert without the try around callback(alert): the exception of a
\* callback ends the loop
SendAlertUnguarded(t) ==
    LET th == threads[t]
    IN  /\ th.pc = "send"
        /\ threads' = [threads EXCEPT ![t] =
              IF th.i < Len(alert_callbacks)
              THEN IF alert_callbacks[th.i + 1] = "raises"
                   THEN Return(Called(th, th.i + 1))
                   ELSE [Called(th, th.i + 1) EXCEPT !.i = th.i + 1]
              ELSE Return(th)]
        /\ UNCHANGED <<monitoring, log_buffer, alert_callbacks, critical_patterns,
                       observer, buffer_size, alert_threshold, clock, lastCall,
                       issue_count, last_analysis>>

\* a _send_alert over a collection that, like a set or a dict, raises
\* RuntimeError when its size changes during the iteration
SendAlertSized(t) ==
    LET th == threads[t]
    IN  /\ th.pc = "send"
        /\ threads' = [threads EXCEPT ![t] =
              IF th.i < Len(alert_callbacks) /\ Len(alert_callbacks) = th.regs
              THEN [Called(th, th.i + 1) EXCEPT !.i = th.i + 1]
              ELSE Return(th)]
        /\ UNCHANGED <<monitoring, log_buffer, alert_callbacks, critical_patterns,
                       observer, buffer_size, alert_threshold, clock, lastCall,
                       issue_count, last_analysis>>

\* one turn of  for callback in self.alert_callbacks : the list has a next
\* callback, which is called and whose exception is caught, or it has none
\* and _send_alert returns
SendAlert(t) ==
    LET th == threads[t]
    IN  /\ th.pc = "send"
        /\ threads' = [threads EXCEPT ![t] =
              IF th.i < Len(alert_callbacks)
              THEN [Called(th, th.i + 1) EXCEPT !.i = th.i + 1]
              ELSE Return(th)]
        /\ UNCHANGED <<monitoring, log_buffer, alert_callbacks, critical_patterns,
                       observer, buffer_size, alert_threshold, clock, lastCall,
                       issue_count, last_analysis>>

\* a loop whose test is  while True
RunningDetached(t, kind, body) ==
    /\ threads[t].kind = kind
    /\ threads[t].pc = "loop"
    /\ threads' = [threads EXCEPT ![t].pc = body]

\* while self.monitoring:  of every loop
Running(t, kind, body) ==
    /\ threads[t].kind = kind
    /\ threads[t].pc = "loop"
    /\ threads' = IF monitoring THEN [threads EXCEPT ![t].pc = body] ELSE Ended(t)

(***************************************************************************)
(* _monitor_log_file                                                       *)
(***************************************************************************)
\* a _monitor_log_file whose except clause stops the monitor
FileBeginStops(t, ok) ==
    /\ threads[t].kind = "file"
    /\ threads[t].pc = "begin"
    /\ threads' = IF ok THEN [threads EXCEPT ![t].pc = "loop"] ELSE Ended(t)
    /\ monitoring' = (monitoring /\ ok)
    /\ UNCHANGED <<log_buffer, alert_callbacks, critical_patterns,
                   observer, buffer_size, alert_threshold, clock, lastCall,
                   issue_count, last_analysis>>

\* subprocess.Popen(['tail', '-f', log_path]); an exception ends the thread
FileBegin(t, ok) ==
    /\ threads[t].kind = "file"
    /\ threads[t].pc = "begin"
    /\ threads' = IF ok THEN [threads EXCEPT ![t].pc = "loop"] ELSE Ended(t)
    /\ UNCHANGED <<monitoring, log_buffer, alert_callbacks, critical_patterns,
                   observer, buffer_size, alert_threshold, clock, lastCall,
                   issue_count, last_analysis>>

FileLoop(t) ==
    /\ Running(t, "file", "read")
    /\ UNCHANGED <<monitoring, log_buffer, alert_callbacks, critical_patterns,
                   observer, buffer_size, alert_threshold, clock, lastCall,
                   issue_count, last_analysis>>

\* line = process.stdout.readline(); if line: self._process_log_line(...)
FileRead(t, raw) ==
    /\ threads[t].kind = "file"
    /\ threads[t].pc = "read"
    /\ IF raw # <<>>
       THEN ProcessLogLine(t, threads[t], Strip(raw),
                           <<"file:", threads[t].path>>, "loop")
       ELSE /\ threads' = [threads EXCEPT ![t].pc = "loop"]
            /\ UNCHANGED <<monitoring, log_buffer, alert_callbacks,
                           critical_patterns, observer, buffer_size,
                           alert_threshold, clock, lastCall,
                           issue_count, last_analysis>>

(***************************************************************************)
(* _monitor_system_metrics                                                 *)
(***************************************************************************)
\* the percentage above which a metric is reported
MetricLimit == 90

\* cpu, then memory, then disk, then time.sleep(self.scan_interval)
NextMetric(m) ==
    CASE m = "cpu" -> "mem" [] m = "mem" -> "disk" [] m = "disk" -> "loop"

SystemLoop(t) ==
    /\ Running(t, "system", "cpu")
    /\ UNCHANGED <<monitoring, log_buffer, alert_callbacks, critical_patterns,
                   observer, buffer_size, alert_threshold, clock, lastCall,
                   issue_count, last_analysis>>

\* a watcher whose test is  >= 90
SystemSampleAtLeast(t, v) ==
    LET m == threads[t].pc
    IN  /\ threads[t].kind = "system"
        /\ m \in {"cpu", "mem", "disk"}
        /\ IF v >= MetricLimit
           THEN ProcessLogLine(t, threads[t], MetricLine(m, v),
                               <<"system:metrics">>, NextMetric(m))
           ELSE /\ threads' = [threads EXCEPT ![t].pc = NextMetric(m)]
                /\ UNCHANGED <<monitoring, log_buffer, alert_callbacks,
                               critical_patterns, observer, buffer_size,
                               alert_threshold, clock, lastCall,
                               issue_count, last_analysis>>

\* one metric is sampled as v and, above the limit, reported
SystemSample(t, v) ==
    LET m == threads[t].pc
    IN  /\ threads[t].kind = "system"
        /\ m \in {"cpu", "mem", "disk"}
        /\ IF v > MetricLimit
           THEN ProcessLogLine(t, threads[t], MetricLine(m, v),
                               <<"system:metrics">>, NextMetric(m))
           ELSE /\ threads' = [threads EXCEPT ![t].pc = NextMetric(m)]
                /\ UNCHANGED <<monitoring, log_buffer, alert_callbacks,
                               critical_patterns, observer, buffer_size,
                               alert_threshold, clock, lastCall,
                               issue_count, last_analysis>>

\* psutil raises: the except logs, sleeps and the loop goes on
SystemError(t) ==
    /\ threads[t].kind = "system"
    /\ threads[t].pc \in {"cpu", "mem", "disk"}
    /\ threads' = [threads EXCEPT ![t].pc = "loop"]
    /\ UNCHANGED <<monitoring, log_buffer, alert_callbacks, critical_patterns,
                   observer, buffer_size, alert_threshold, clock, lastCall,
                   issue_count, last_analysis>>

(***************************************************************************)
(* _monitor_kubernetes_logs                                                *)
(***************************************************************************)
KubectlResults == {"ok", "nonzero", "TimeoutExpired", "FileNotFoundError", "Exception"}

RECURSIVE DropBlank(_)
\* for line in ...: if line.strip():  skips the blank lines
DropBlank(lines) ==
    IF lines # <<>> /\ Strip(Head(lines)) = <<>> THEN DropBlank(Tail(lines))
    ELSE lines

KubernetesLoop(t) ==
    /\ Running(t, "k8s", "run")
    /\ UNCHANGED <<monitoring, log_buffer, alert_callbacks, critical_patterns,
                   observer, buffer_size, alert_threshold, clock, lastCall,
                   issue_count, last_analysis>>

\* a _monitor_kubernetes_logs without  except FileNotFoundError: the
\* general except clause logs, sleeps and the loop goes on
KubernetesRunRetries(t, res, out) ==
    /\ threads[t].kind = "k8s"
    /\ threads[t].pc = "run"
    /\ threads' =
          CASE res = "ok" ->
                 [threads EXCEPT ![t].pc = "lines", ![t].slept = FALSE,
                                 ![t].pending = DropBlank(Split(out))]
            [] res = "TimeoutExpired" ->
                 [threads EXCEPT ![t].pc = "loop", ![t].slept = FALSE]
            [] OTHER -> [threads EXCEPT ![t].pc = "loop", ![t].slept = TRUE]
    /\ UNCHANGED <<monitoring, log_buffer, alert_callbacks, critical_patterns,
                   observer, buffer_size, alert_threshold, clock, lastCall,
                   issue_count, last_analysis>>

\* subprocess.run(['kubectl', 'logs', ...]) ends with res and prints out;
\* history: slept says the thread has been in time.sleep(self.scan_interval)
\* since it last ran kubectl, or has not run it yet
KubernetesRun(t, res, out) ==
    /\ threads[t].kind = "k8s"
    /\ threads[t].pc = "run"
    /\ threads' =
          CASE res = "ok" ->
                 [threads EXCEPT ![t].pc = "lines", ![t].slept = FALSE,
                                 ![t].pending = DropBlank(Split(out))]
            [] res = "FileNotFoundError" -> Ended(t)
            [] res = "TimeoutExpired" ->
                 [threads EXCEPT ![t].pc = "loop", ![t].slept = FALSE]
            [] OTHER -> [threads EXCEPT ![t].pc = "loop", ![t].slept = TRUE]
    /\ UNCHANGED <<monitoring, log_buffer, alert_callbacks, critical_patterns,
                   observer, buffer_size, alert_threshold, clock, lastCall,
                   issue_count, last_analysis>>

\* the next line of the output that is not blank is processed
KubernetesLine(t) ==
    LET th == threads[t]
    IN  /\ th.kind = "k8s"
        /\ th.pc = "lines"
        /\ IF th.pending # <<>>
           THEN ProcessLogLine(t,
                    [th EXCEPT !.pending = DropBlank(Tail(th.pending))],
                    Strip(Head(th.pending)), <<"kubernetes">>, "lines")
           ELSE /\ threads' = [threads EXCEPT ![t].pc = "loop", ![t].slept = TRUE]
                /\ UNCHANGED <<monitoring, log_buffer, alert_callbacks,
                               critical_patterns, observer, buffer_size,
                               alert_threshold, clock, lastCall,
                               issue_count, last_analysis>>

(***************************************************************************)
(* _continuous_analysis and _analyze_logs                                  *)
(***************************************************************************)
\* sum(1 for log in logs if log.get('critical', False))
RECURSIVE critical_count(_)
critical_count(logs) ==
    IF logs = <<>> THEN 0
    ELSE (IF Head(logs).critical THEN 1 ELSE 0) + critical_count(Tail(logs))

\* an _analyze_logs whose test is  critical_count <= self.alert_threshold
CallsAnalyzerAbove(logs, threshold) ==
    logs # <<>> /\ ~(critical_count(logs) <= threshold)

\* an _analyze_logs without  if not logs  and called without  if logs
CallsAnalyzerEmpty(logs, threshold) == ~(critical_count(logs) < threshold)

\* _analyze_logs gets as far as self.ai_analyzer.analyze_logs
CallsAnalyzer(logs, threshold) ==
    logs # <<>> /\ ~(critical_count(logs) < threshold)

\* a drain whose test is  len(logs) <= self.buffer_size
KeepsDrainingOneMore(q, logs, size) == q # <<>> /\ Len(logs) <= size

\* while not self.log_buffer.empty() and len(logs) < self.buffer_size
\* a drain without the limit of buffer_size entries
KeepsDrainingAll(q, logs, size) == q # <<>>

KeepsDraining(q, logs, size) == q # <<>> /\ Len(logs) < size

AnalysisLoop(t) ==
    /\ threads[t].kind = "analysis"
    /\ threads[t].pc = "loop"
    /\ threads' =
          IF monitoring
          THEN [threads EXCEPT ![t].pc = "drain", ![t].logs = <<>>,
                               ![t].calls = 0, ![t].asked = <<>>]
          ELSE Ended(t)
    /\ UNCHANGED <<monitoring, log_buffer, alert_callbacks, critical_patterns,
                   observer, buffer_size, alert_threshold, clock, lastCall,
                   issue_count, last_analysis>>

AnalysisDrain(t) ==
    /\ threads[t].kind = "analysis"
    /\ threads[t].pc = "drain"
    /\ threads' = [threads EXCEPT ![t].pc =
          IF KeepsDraining(log_buffer, threads[t].logs, buffer_size)
          THEN "get" ELSE "analyze"]
    /\ UNCHANGED <<monitoring, log_buffer, alert_callbacks, critical_patterns,
                   observer, buffer_size, alert_threshold, clock, lastCall,
                   issue_count, last_analysis>>

\* log = self.log_buffer.get_nowait(); logs.append(log); queue.Empty: break
AnalysisGet(t) ==
    LET r == get_nowait(log_buffer)
    IN  /\ threads[t].kind = "analysis"
        /\ threads[t].pc = "get"
        /\ log_buffer' = r.q
        /\ threads' = Queued([threads EXCEPT ![t] =
                                  IF r.ok THEN [@ EXCEPT !.pc = "drain",
                                                         !.logs = @ \o r.item]
                                          ELSE [@ EXCEPT !.pc = "analyze"]],
                              t, FALSE)
        /\ UNCHANGED <<monitoring, alert_callbacks, critical_patterns, observer,
                       buffer_size, alert_threshold, clock, lastCall,
                       issue_count, last_analysis>>

\* a projection that passes the critical entries only
formatted_critical(logs) ==
    LET IsCritical(log) == log.critical
        kept == SelectSeq(logs, IsCritical)
    IN  [k \in DOMAIN kept |->
            [timestamp |-> kept[k].id, level |-> kept[k].level,
             message |-> kept[k].message, source |-> kept[k].source]]

\* formatted_logs of _analyze_logs: the four keys of every entry, in the
\* order of the batch; id stands for the timestamp
formatted_logs(logs) ==
    [k \in DOMAIN logs |->
        [timestamp |-> logs[k].id, level |-> logs[k].level,
         message |-> logs[k].message, source |-> logs[k].source]]

\* a cycle that puts a batch below the threshold back into log_buffer
AnalysisAnalyzeRequeue(t, ai) ==
    LET th == threads[t]
        called == CallsAnalyzer(th.logs, alert_threshold)
    IN  /\ th.kind = "analysis"
        /\ th.pc = "analyze"
        /\ threads' = [threads EXCEPT ![t] =
              IF called
              THEN IF ai = "text" /\ AnalysisText # <<>>
                   THEN [@ EXCEPT !.calls = @ + 1, !.logs = <<>>, !.pc = "send",
                                  !.regs = Len(alert_callbacks),
                                  !.asked = formatted_logs(th.logs),
                                  !.i = 0, !.sent = <<>>,
                                  !.alert = Alert("analysis", 0, AnalysisTitle,
                                                  AnalysisText)]
                   ELSE [@ EXCEPT !.calls = @ + 1, !.logs = <<>>, !.pc = "loop",
                                  !.asked = formatted_logs(th.logs)]
              ELSE [@ EXCEPT !.logs = <<>>, !.pc = "loop"]]
        /\ log_buffer' = IF called THEN log_buffer ELSE th.logs \o log_buffer
        /\ UNCHANGED <<monitoring, alert_callbacks, critical_patterns,
                       observer, buffer_size, alert_threshold, clock, lastCall,
                       issue_count, last_analysis>>

\* a cycle without the except clauses of _analyze_logs and of
\* _continuous_analysis: a collaborator that raises ends the thread
AnalysisAnalyzeFatal(t, ai) ==
    LET th == threads[t]
        called == CallsAnalyzer(th.logs, alert_threshold)
    IN  /\ th.kind = "analysis"
        /\ th.pc = "analyze"
        /\ threads' =
              IF called /\ ai = "raise" THEN Ended(t)
              ELSE [threads EXCEPT ![t] =
                 IF called
                 THEN IF ai = "text" /\ AnalysisText # <<>>
                      THEN [@ EXCEPT !.calls = @ + 1, !.logs = <<>>, !.pc = "send",
                                     !.regs = Len(alert_callbacks),
                                     !.asked = formatted_logs(th.logs),
                                     !.i = 0, !.sent = <<>>,
                                     !.alert = Alert("analysis", 0, AnalysisTitle,
                                                     AnalysisText)]
                      ELSE [@ EXCEPT !.calls = @ + 1, !.logs = <<>>, !.pc = "loop",
                                     !.asked = formatted_logs(th.logs)]
                 ELSE [@ EXCEPT !.logs = <<>>, !.pc = "loop"]]
        /\ UNCHANGED <<monitoring, log_buffer, alert_callbacks, critical_patterns,
                       observer, buffer_size, alert_threshold, clock, lastCall,
                       issue_count, last_analysis>>

\* if logs: analysis = self._analyze_logs(logs); if analysis: _send_alert;
\* the collaborator, when it is called, ends with ai
AnalysisAnalyze(t, ai) ==
    LET th == threads[t]
        called == CallsAnalyzer(th.logs, alert_threshold)
    IN  /\ th.kind = "analysis"
        /\ th.pc = "analyze"
        /\ threads' = [threads EXCEPT ![t] =
              IF called
              THEN IF ai = "text" /\ AnalysisText # <<>>
                   THEN [@ EXCEPT !.calls = @ + 1, !.logs = <<>>, !.pc = "send",
                                  !.regs = Len(alert_callbacks),
                                  !.asked = formatted_logs(th.logs),
                                  !.i = 0, !.sent = <<>>,
                                  !.alert = Alert("analysis", 0, AnalysisTitle,
                                                  AnalysisText)]
                   ELSE [@ EXCEPT !.calls = @ + 1, !.logs = <<>>, !.pc = "loop",
                                  !.asked = formatted_logs(th.logs)]
              ELSE [@ EXCEPT !.logs = <<>>, !.pc = "loop"]]
        /\ UNCHANGED <<monitoring, log_buffer, alert_callbacks, critical_patterns,
                       observer, buffer_size, alert_threshold, clock, lastCall,
                       issue_count, last_analysis>>

(***************************************************************************)
(* The specification.                                                      *)
(***************************************************************************)
\* RealTimeMonitor() with the environment set to one of the pairs
Built(configs) ==
    /\ monitoring = FALSE
    /\ log_buffer = <<>>
    /\ alert_callbacks = <<>>
    /\ critical_patterns = <<"default">>
    /\ observer = [started |-> FALSE, stopped |-> FALSE]
    /\ \E c \in configs : buffer_size = c[1] /\ alert_threshold = c[2]
    /\ threads = <<>>
    /\ clock = 0
    /\ lastCall = [op |-> "none", active |-> FALSE, result |-> "returned"]
    /\ issue_count = 0
    /\ last_analysis = "None"

Init == Built(ConfigPairs)

\* the steps of _process_log_line and _send_alert
Processing ==
    \/ \E t \in Tids : Evict(t)
    \/ \E t \in Tids : Reput(t)
    \/ \E t \in Tids : SendAlert(t)

FileWatcher ==
    \/ \E t \in Tids, ok \in BOOLEAN : FileBegin(t, ok)
    \/ \E t \in Tids : FileLoop(t)
    \/ \E t \in Tids, raw \in RawLines : FileRead(t, raw)

SystemWatcher ==
    \/ \E t \in Tids : SystemLoop(t)
    \/ \E t \in Tids, v \in MetricValues : SystemSample(t, v)
    \/ \E t \in Tids : SystemError(t)

KubernetesWatcher ==
    \/ \E t \in Tids : KubernetesLoop(t)
    \/ \E t \in Tids, res \in KubectlResults, out \in KubectlOutputs :
          KubernetesRun(t, res, out)
    \/ \E t \in Tids : KubernetesLine(t)

Scheduler ==
    \/ \E t \in Tids : AnalysisLoop(t)
    \/ \E t \in Tids : AnalysisDrain(t)
    \/ \E t \in Tids : AnalysisGet(t)
    \/ \E t \in Tids, ai \in AiOutcomes : AnalysisAnalyze(t, ai)

\* every call and every thread, the environment unrestricted
Next ==
    \/ \E a \in StartArgs : Room(a, MaxThreads) /\ start_monitoring(a)
    \/ stop_monitoring
    \/ \E c \in Callbacks : add_alert_callback(c)
    \/ Processing
    \/ FileWatcher
    \/ SystemWatcher
    \/ KubernetesWatcher
    \/ Scheduler

Spec == Init /\ [][Next]_vars

\* the monitor built with MONITOR_BUFFER_SIZE=2 and MONITOR_ALERT_THRESHOLD=2
InitLifecycle == Init /\ buffer_size = 2 /\ alert_threshold = 2

\* One run of file watchers and their scheduler: the caller starts the
\* monitor on existing files and leaves it running; no callback is
\* registered.
NextFiles ==
    \/ \E a \in FileArgs : Fresh /\ start_monitoring(a)
    \/ Processing
    \/ FileWatcher
    \/ Scheduler

SpecFiles == Init /\ [][NextFiles]_vars

\* One file watcher, its scheduler and the callbacks: the caller registers
\* callbacks at any time, those that raise among them, and MaxAppended
\* lines are appended to the file, too few to fill the buffer.
NextDispatch ==
    \/ \E c \in Callbacks : add_alert_callback(c)
    \/ \E a \in OneFileArgs : Fresh /\ start_monitoring(a)
    \/ \E t \in Tids : FileBegin(t, TRUE)
    \/ \E t \in Tids : FileLoop(t)
    \/ \E t \in Tids, raw \in RawLines :
          (raw = <<>> \/ clock < MaxAppended) /\ FileRead(t, raw)
    \/ \E t \in Tids : SendAlert(t)
    \/ Scheduler

SpecDispatch == InitLifecycle /\ [][NextDispatch]_vars

\* The cycles of the scheduler: as SpecDispatch, the monitor built with any
\* of CycleConfigs.
SpecCycle == Built(CycleConfigs) /\ [][NextDispatch]_vars

\* The cycles with the callbacks registered before the monitor is started
\* and none afterwards.
NextCycleSettled ==
    \/ \E c \in Callbacks : Fresh /\ add_alert_callback(c)
    \/ \E a \in OneFileArgs : Fresh /\ start_monitoring(a)
    \/ \E t \in Tids : FileBegin(t, TRUE)
    \/ \E t \in Tids : FileLoop(t)
    \/ \E t \in Tids, raw \in RawLines :
          (raw = <<>> \/ clock < MaxAppended) /\ FileRead(t, raw)
    \/ \E t \in Tids : SendAlert(t)
    \/ Scheduler

\* Those cycles, the thread of _continuous_analysis being scheduled again
\* and again and its time.sleep(self.scan_interval) returning.
SpecCycleFair ==
    Built(CycleConfigs) /\ [][NextCycleSettled]_vars /\ WF_vars(Scheduler)

\* a line that matches "error", as readline() returns it
ErrorRaw == <<"e", "r", "r", "o", "r", "\n">>

\* The end-to-end scenario: callbacks are registered, then the monitor is
\* started on one file, to which MaxAppended lines matching "error" are
\* appended, and the collaborator returns its text whenever it is called.
NextScenario ==
    \/ \E c \in Callbacks : Fresh /\ add_alert_callback(c)
    \/ \E a \in OneFileArgs :
          Fresh /\ alert_callbacks # <<>> /\ start_monitoring(a)
    \/ \E t \in Tids : FileBegin(t, TRUE)
    \/ \E t \in Tids : FileLoop(t)
    \/ \E t \in Tids, raw \in {ErrorRaw, <<>>} :
          (raw = <<>> \/ clock < MaxAppended) /\ FileRead(t, raw)
    \/ \E t \in Tids : SendAlert(t)
    \/ \E t \in Tids : AnalysisLoop(t)
    \/ \E t \in Tids : AnalysisDrain(t)
    \/ \E t \in Tids : AnalysisGet(t)
    \/ \E t \in Tids : AnalysisAnalyze(t, "text")

SpecScenario == InitLifecycle /\ [][NextScenario]_vars

\* the calls that watch the system metrics only
SystemArgs ==
    {a \in StartArgs : /\ a.log_paths = <<>> /\ ~a.watch_files
                       /\ a.watch_system /\ ~a.watch_kubernetes}

\* The system metrics: the monitor is started on the system metrics alone,
\* psutil reporting any of MetricValues or raising.  (No line of this
\* watcher is critical, so that _send_alert is never entered.)
NextSystem ==
    \/ \E a \in SystemArgs : Fresh /\ start_monitoring(a)
    \/ SystemWatcher
    \/ \E t \in Tids : Evict(t)
    \/ \E t \in Tids : Reput(t)
    \/ Scheduler

SpecSystem == InitLifecycle /\ [][NextSystem]_vars

\* what psutil samples around the limit, in percent
LimitValues == {89, 90, 91}

\* The samples at the limit: as NextSystem, psutil reporting any of
\* LimitValues or raising.
NextLimit ==
    \/ \E a \in SystemArgs : Fresh /\ start_monitoring(a)
    \/ \E t \in Tids : SystemLoop(t)
    \/ \E t \in Tids, v \in LimitValues : SystemSample(t, v)
    \/ \E t \in Tids : SystemError(t)
    \/ \E t \in Tids : Evict(t)
    \/ \E t \in Tids : Reput(t)
    \/ Scheduler

SpecLimit == InitLifecycle /\ [][NextLimit]_vars

\* the calls that watch one source: one file, which may be missing, the
\* system metrics, or the pods
OneSourceArgs ==
    {a \in StartArgs :
        \/ /\ a.log_paths # <<>> /\ a.exists \subseteq {"a.log"} /\ a.watch_files
           /\ ~a.watch_system /\ ~a.watch_kubernetes
        \/ /\ a.log_paths = <<>> /\ ~a.watch_files
           /\ a.watch_system # a.watch_kubernetes}

\* The faults: one run of one watcher and the scheduler, in which every
\* source may fail (Popen, psutil, kubectl, the collaborator, the callbacks,
\* which all raise) and up to MaxAppended lines arrive; the caller stops
\* the monitor when it likes.
NextFaults ==
    \/ Fresh /\ add_alert_callback("raises")
    \/ \E a \in OneSourceArgs :
          Fresh /\ ~observer.stopped /\ start_monitoring(a)
    \/ stop_monitoring
    \/ \E t \in Tids, ok \in BOOLEAN : FileBegin(t, ok)
    \/ \E t \in Tids : FileLoop(t)
    \/ \E t \in Tids, raw \in RawLines :
          (raw = <<>> \/ clock < MaxAppended) /\ FileRead(t, raw)
    \/ \E t \in Tids : SystemLoop(t)
    \/ \E t \in Tids, v \in MetricValues :
          (v <= MetricLimit \/ clock < MaxAppended) /\ SystemSample(t, v)
    \/ \E t \in Tids : SystemError(t)
    \/ \E t \in Tids : KubernetesLoop(t)
    \/ \E t \in Tids, res \in KubectlResults, out \in KubectlOutputs :
          KubernetesRun(t, res, out)
    \/ \E t \in Tids :
          (threads[t].pending = <<>> \/ clock < MaxAppended) /\ KubernetesLine(t)
    \/ \E t \in Tids : SendAlert(t)
    \/ Scheduler

SpecFaults == InitLifecycle /\ [][NextFaults]_vars

\* The status: callbacks are registered, the monitor is started on one
\* file, to which MaxAppended lines are appended, and is stopped, and the
\* caller asks for the status whenever it likes.
NextStatus ==
    \/ get_status
    \/ Fresh /\ add_alert_callback("ok")
    \/ \E a \in OneFileArgs : Fresh /\ ~observer.stopped /\ start_monitoring(a)
    \/ stop_monitoring
    \/ \E t \in Tids : FileBegin(t, TRUE)
    \/ \E t \in Tids : FileLoop(t)
    \/ \E t \in Tids, raw \in RawLines :
          (raw = <<>> \/ clock < MaxAppended) /\ FileRead(t, raw)
    \/ \E t \in Tids : SendAlert(t)
    \/ \E t \in Tids : AnalysisLoop(t)
    \/ \E t \in Tids : AnalysisDrain(t)
    \/ \E t \in Tids : AnalysisGet(t)
    \/ \E t \in Tids : AnalysisAnalyze(t, "none")

SpecStatus == InitLifecycle /\ [][NextStatus]_vars

\* the calls that watch files, of which one at least is there, the system
\* metrics and the pods
EverySourceArgs ==
    {a \in StartArgs : /\ a.exists # {}
                       /\ a.watch_files /\ a.watch_system /\ a.watch_kubernetes}

\* A machine without kubectl: the monitor is started once on every source
\* and stopped when the caller likes; nothing is written to the files, the
\* metrics are below the limit or psutil raises, and subprocess.run raises
\* FileNotFoundError.
NextKubectl ==
    \/ \E a \in EverySourceArgs : Fresh /\ ~observer.stopped /\ start_monitoring(a)
    \/ stop_monitoring
    \/ \E t \in Tids : FileBegin(t, TRUE)
    \/ \E t \in Tids : FileLoop(t)
    \/ \E t \in Tids : FileRead(t, <<>>)
    \/ \E t \in Tids : SystemLoop(t)
    \/ \E t \in Tids : SystemSample(t, 50)
    \/ \E t \in Tids : SystemError(t)
    \/ \E t \in Tids : KubernetesLoop(t)
    \/ \E t \in Tids : KubernetesRun(t, "FileNotFoundError", <<>>)
    \/ \E t \in Tids : AnalysisLoop(t)
    \/ \E t \in Tids : AnalysisDrain(t)
    \/ \E t \in Tids : AnalysisAnalyze(t, "none")

SpecKubectl == InitLifecycle /\ [][NextKubectl]_vars

\* the calls that watch one file, which is there, the system metrics and
\* the pods
ShutdownArgs ==
    {a \in EverySourceArgs : a.exists = {"a.log"}}

\* what the threads of the shutdown do: every blocking operation returns,
\* the file grows by MaxAppended lines at most, the metrics are below the
\* limit or psutil raises, kubectl fails or prints nothing, and the
\* collaborator returns nothing
Works ==
    \/ \E t \in Tids, ok \in BOOLEAN : FileBegin(t, ok)
    \/ \E t \in Tids : FileLoop(t)
    \/ \E t \in Tids, raw \in RawLines :
          (raw = <<>> \/ clock < MaxAppended) /\ FileRead(t, raw)
    \/ \E t \in Tids : SendAlert(t)
    \/ \E t \in Tids : SystemLoop(t)
    \/ \E t \in Tids : SystemSample(t, 50)
    \/ \E t \in Tids : SystemError(t)
    \/ \E t \in Tids : KubernetesLoop(t)
    \/ \E t \in Tids, res \in KubectlResults : KubernetesRun(t, res, <<>>)
    \/ \E t \in Tids : KubernetesLine(t)
    \/ \E t \in Tids : AnalysisLoop(t)
    \/ \E t \in Tids : AnalysisDrain(t)
    \/ \E t \in Tids : AnalysisGet(t)
    \/ \E t \in Tids : AnalysisAnalyze(t, "none")

\* The shutdown: a callback is registered, the monitor is started once on
\* every source and stopped when the caller likes, and is not started
\* again.
NextShutdown ==
    \/ Fresh /\ alert_callbacks = <<>> /\ add_alert_callback("ok")
    \/ \E a \in ShutdownArgs : Fresh /\ ~observer.stopped /\ start_monitoring(a)
    \/ stop_monitoring
    \/ Works

\* every thread is scheduled again and again and its blocking operation
\* (sleep, readline, subprocess.run, psutil) returns
SpecShutdown == InitLifecycle /\ [][NextShutdown]_vars /\ WF_vars(Works)

\* The life cycle: every call of the controller with every argument, and
\* every thread's loop, while the sources deliver nothing (the files do not
\* grow, psutil and kubectl fail).
NextLifecycle ==
    \/ \E a \in StartArgs : Room(a, MaxThreads) /\ start_monitoring(a)
    \/ stop_monitoring
    \/ lastCall.op \in {"none", "add"} /\ add_alert_callback("ok")
    \/ \E t \in Tids, ok \in BOOLEAN : FileBegin(t, ok)
    \/ \E t \in Tids : FileLoop(t)
    \/ \E t \in Tids : FileRead(t, <<>>)
    \/ \E t \in Tids : SystemLoop(t)
    \/ \E t \in Tids : SystemError(t)
    \/ \E t \in Tids : KubernetesLoop(t)
    \/ \E t \in Tids, res \in KubectlResults \ {"ok"} : KubernetesRun(t, res, <<>>)
    \/ \E t \in Tids : AnalysisLoop(t)
    \/ \E t \in Tids : AnalysisDrain(t)
    \/ \E t \in Tids : AnalysisAnalyze(t, "none")

SpecLifecycle == InitLifecycle /\ [][NextLifecycle]_vars

\* the longest line the matching is tried on, the two named lines aside
MaxLineLen == 3

MatchAlphabet == {"o", "O", "m", "M"}

ConnectionRefusedLine ==
    <<"C","o","n","n","e","c","t","i","o","n"," ","r","e","f","u","s","e","d"," ",
      "b","y"," ","u","p","s","t","r","e","a","m">>

AllNormalLine ==
    <<"a","l","l"," ","s","y","s","t","e","m","s"," ","n","o","r","m","a","l">>

\* the lines the file holds: every text over the alphabet, the empty line
\* among them, and the two named lines
MatchLines ==
    UNION {[1..n -> MatchAlphabet] : n \in 0..MaxLineLen}
        \cup {ConnectionRefusedLine, AllNormalLine}

\* what readline() returns for them
MatchRaw == {line \o <<"\n">> : line \in MatchLines}

\* The matching: the monitor is started on existing files that hold one line
\* between them, any line of MatchLines, and that line is read.
NextMatch ==
    \/ \E a \in FileArgs : Fresh /\ start_monitoring(a)
    \/ \E t \in Tids, ok \in BOOLEAN : FileBegin(t, ok)
    \/ \E t \in Tids : FileLoop(t)
    \/ \E t \in Tids, raw \in MatchRaw : clock = 0 /\ FileRead(t, raw)
    \/ \E t \in Tids : SendAlert(t)

SpecMatch == InitLifecycle /\ [][NextMatch]_vars

(***************************************************************************)
(* The scenario constructors: monitor_deployment_logs,                     *)
(* monitor_production_logs, monitor_pipeline_logs.                         *)
(***************************************************************************)
Scenarios == {"deployment", "production", "pipeline"}

\* pipeline_logs of monitor_pipeline_logs
PipelineLogs == <<"/var/log/ci-cd/pipeline.log", "/tmp/pipeline.log", "pipeline.log">>

\* the start_monitoring call of each constructor, on the paths the caller
\* gives (those of the pipeline are fixed), exists being the paths found
ScenarioCall(name, log_paths, exists) ==
    [log_paths |-> IF name = "pipeline" THEN PipelineLogs ELSE log_paths,
     exists |-> exists,
     watch_files |-> TRUE,
     watch_system |-> name # "pipeline",
     watch_kubernetes |-> name = "production"]

\* the calls the constructors make: at most one of the files is there
ScenarioArgs(name) ==
    IF name = "pipeline"
    THEN {ScenarioCall(name, <<>>, e) : e \in {{}, {"pipeline.log"}}}
    ELSE {ScenarioCall(name, <<"a.log", "b.log">>, e) : e \in {{}, {"a.log"}}}

\* a constructor that starts the monitor first and extends the patterns
\* afterwards
ScenarioStartsFirst(name, a) ==
    \/ /\ lastCall.op = "none"
       /\ critical_patterns = <<"default">>
       /\ start_monitoring(a)
    \/ /\ lastCall.op = "start"
       /\ critical_patterns = <<"default">>
       /\ critical_patterns' = Append(critical_patterns, name)
       /\ UNCHANGED <<monitoring, log_buffer, alert_callbacks, observer,
                      buffer_size, alert_threshold, threads, clock, lastCall,
                      issue_count, last_analysis>>

\* the statements of a constructor after monitor = RealTimeMonitor():
\* monitor.critical_patterns.extend(<the patterns of the scenario>), then
\* monitor.start_monitoring(...); the monitor is then returned
ScenarioConstructor(name, a) ==
    \/ /\ lastCall.op = "none"
       /\ critical_patterns = <<"default">>
       /\ critical_patterns' = Append(critical_patterns, name)
       /\ UNCHANGED <<monitoring, log_buffer, alert_callbacks, observer,
                      buffer_size, alert_threshold, threads, clock, lastCall,
                      issue_count, last_analysis>>
    \/ /\ lastCall.op = "none"
       /\ critical_patterns = <<"default", name>>
       /\ start_monitoring(a)

\* the constructor has returned its monitor to the caller
Constructed == lastCall.op # "none"

\* what readline() gives in a scenario: a line that holds one of its
\* patterns and no default pattern, a line that holds none, and the end of
\* the file
ScenarioRaw(name) ==
    { CASE name = "deployment" -> <<"R","o","l","l","b","a","c","k","\n">>
        [] name = "production" -> <<"s","e","r","v","i","c","e"," ","D","O","W","N","\n">>
        [] name = "pipeline" -> <<"D","e","p","e","n","d","e","n","c","y"," ","c","o","n","f","l","i","c","t","\n">>
        [] OTHER -> <<"\n">>,
      <<"o","k","\n">>,
      <<>> }

\* what kubectl logs prints in the production scenario
ScenarioOutputs == { <<"R","a","t","e"," ","l","i","m","i","t"," ","e","x","c","e","e","d","e","d","\n","o","k">> }

\* The scenarios: a constructor builds a monitor and starts it; its caller
\* then registers a callback and stops the monitor when it likes, while
\* MaxAppended lines arrive, too few to fill the buffer.
NextScenarios ==
    \/ \E name \in Scenarios : \E a \in ScenarioArgs(name) :
          ScenarioConstructor(name, a)
    \/ Constructed /\ alert_callbacks = <<>> /\ add_alert_callback("ok")
    \/ Constructed /\ stop_monitoring
    \/ \E t \in Tids : FileBegin(t, TRUE)
    \/ \E t \in Tids : FileLoop(t)
    \/ \E t \in Tids, raw \in ScenarioRaw(critical_patterns[Len(critical_patterns)]) :
          (raw = <<>> \/ clock < MaxAppended) /\ FileRead(t, raw)
    \/ \E t \in Tids : SendAlert(t)
    \/ \E t \in Tids : SystemLoop(t)
    \/ \E t \in Tids : SystemSample(t, 50)
    \/ \E t \in Tids : KubernetesLoop(t)
    \/ \E t \in Tids, out \in ScenarioOutputs :
          clock < MaxAppended /\ KubernetesRun(t, "ok", out)
    \/ \E t \in Tids :
          (threads[t].pending = <<>> \/ clock < MaxAppended) /\ KubernetesLine(t)
    \/ \E t \in Tids : AnalysisLoop(t)
    \/ \E t \in Tids : AnalysisDrain(t)
    \/ \E t \in Tids : AnalysisGet(t)
    \/ \E t \in Tids : AnalysisAnalyze(t, "none")

SpecScenarios == InitLifecycle /\ [][NextScenarios]_vars

\* the calls that watch at most one file and nothing else
FileOrNoneArgs ==
    {a \in StartArgs : /\ a.log_paths # <<>> /\ a.exists \subseteq {"a.log"}
                       /\ a.watch_files
                       /\ ~a.watch_system /\ ~a.watch_kubernetes}

\* The drains: the monitor is started, stopped once and started again
\* before the threads of the earlier run have seen the flag, so that several
\* schedulers drain the buffer one file watcher fills with critical lines,
\* evicting when it is full; no callback is registered.
NextDrains ==
    \/ \E a \in FileOrNoneArgs :
          ~monitoring /\ Room(a, MaxThreads) /\ start_monitoring(a)
    \/ monitoring /\ ~observer.stopped /\ stop_monitoring
    \/ \E t \in Tids : FileBegin(t, TRUE)
    \/ \E t \in Tids : FileLoop(t)
    \/ \E t \in Tids, raw \in {ErrorRaw, <<>>} : FileRead(t, raw)
    \/ Processing
    \/ \E t \in Tids : AnalysisLoop(t)
    \/ \E t \in Tids : AnalysisDrain(t)
    \/ \E t \in Tids : AnalysisGet(t)
    \/ \E t \in Tids : AnalysisAnalyze(t, "text")

SpecDrains == InitLifecycle /\ [][NextDrains]_vars

\* The tracking: as the status, the collaborator returning a text,
\* returning nothing or raising, so that CRITICAL and ANALYSIS alerts are
\* dispatched before the caller asks for the status.
NextTracking ==
    \/ get_status
    \/ Fresh /\ alert_callbacks = <<>> /\ add_alert_callback("ok")
    \/ \E a \in OneFileArgs : Fresh /\ ~observer.stopped /\ start_monitoring(a)
    \/ stop_monitoring
    \/ \E t \in Tids : FileBegin(t, TRUE)
    \/ \E t \in Tids : FileLoop(t)
    \/ \E t \in Tids, raw \in {ErrorRaw, <<>>} :
          (raw = <<>> \/ clock < MaxAppended) /\ FileRead(t, raw)
    \/ \E t \in Tids : SendAlert(t)
    \/ Scheduler

SpecTracking == InitLifecycle /\ [][NextTracking]_vars

\* The order of enqueue and alert: callbacks are registered, the monitor is
\* started once on one file, and the lines that arrive fill the buffer, so
\* that entries are evicted while the scheduler drains.
NextOrder ==
    \/ \E c \in Callbacks : Fresh /\ add_alert_callback(c)
    \/ \E a \in OneFileArgs : Fresh /\ start_monitoring(a)
    \/ \E t \in Tids : FileBegin(t, TRUE)
    \/ \E t \in Tids : FileLoop(t)
    \/ \E t \in Tids, raw \in RawLines : FileRead(t, raw)
    \/ Processing
    \/ \E t \in Tids : AnalysisLoop(t)
    \/ \E t \in Tids : AnalysisDrain(t)
    \/ \E t \in Tids : AnalysisGet(t)
    \/ \E t \in Tids : AnalysisAnalyze(t, "none")

SpecOrder == InitLifecycle /\ [][NextOrder]_vars

\* The restart: as the drains, a callback having been registered before
\* the first start, the lines matching no pattern, so that no alert is
\* sent, and all of them appended before the monitor is stopped.
NextRestart ==
    \/ Fresh /\ alert_callbacks = <<>> /\ lastCall.op = "none"
             /\ add_alert_callback("ok")
    \/ \E a \in FileOrNoneArgs :
          ~monitoring /\ Room(a, MaxThreads) /\ start_monitoring(a)
    \/ monitoring /\ ~observer.stopped /\ stop_monitoring
    \/ \E t \in Tids : FileBegin(t, TRUE)
    \/ \E t \in Tids : FileLoop(t)
    \/ \E t \in Tids, raw \in {<<"\n">>, <<>>} :
          (raw = <<>> \/ ~observer.stopped) /\ FileRead(t, raw)
    \/ \E t \in Tids : Evict(t)
    \/ \E t \in Tids : Reput(t)
    \/ \E t \in Tids : AnalysisLoop(t)
    \/ \E t \in Tids : AnalysisDrain(t)
    \/ \E t \in Tids : AnalysisGet(t)
    \/ \E t \in Tids : AnalysisAnalyze(t, "text")

SpecRestart == InitLifecycle /\ [][NextRestart]_vars

\* the values of MONITOR_BUFFER_SIZE and MONITOR_ALERT_THRESHOLD with the
\* threshold above the drain limit, zero and a negative limit among them,
\* and one pair with the threshold at the limit
ThresholdConfigs == { <<0 - 1, 0>>, <<0, 1>>, <<1, 2>>, <<2, 2>> }

\* The cycles of a monitor built with any of ThresholdConfigs.
SpecThreshold == Built(ThresholdConfigs) /\ [][NextCycleSettled]_vars

(***************************************************************************)
(* The claims.                                                             *)
(***************************************************************************)
\* thread t has taken this step (the history field solo aside)
Stepped(t) ==
    /\ Len(threads') = Len(threads)
    /\ [threads'[t] EXCEPT !.solo = 0] # [threads[t] EXCEPT !.solo = 0]

\* thread th is between the first put_nowait of _process_log_line, which
\* raised queue.Full, and the end of its enqueue
Enqueuing(th) == th.pc \in {"evict", "reput"}

\* with this step thread t ends the enqueue of a call of _process_log_line
Finished(t) ==
    /\ Stepped(t)
    /\ ~Enqueuing(threads'[t])
    /\ (Enqueuing(threads[t]) \/ clock' = clock + 1)

\* the id and the criticality of the entry whose enqueue t ends with this step
FinishedId(t) == IF Enqueuing(threads[t]) THEN threads[t].entry.id ELSE clock'

FinishedCritical(t) ==
    IF Enqueuing(threads[t])
    THEN threads[t].entry.critical
    ELSE critical_found(log_buffer'[Len(log_buffer')].message,
                        PatternList(critical_patterns))

\* C1: stop_monitoring on a monitor that is not running (never started, or
\* stopped before) ends without raising and changes nothing: monitoring stays
\* false, the buffer and the callback registry are as they were.
C1_StopWhenIdleReturns ==
    [][(~monitoring /\ stop_monitoring) =>
          /\ lastCall'.result = "returned"
          /\ ~monitoring'
          /\ log_buffer' = log_buffer
          /\ alert_callbacks' = alert_callbacks]_vars

\* C2: when stop_monitoring has returned, every thread the preceding
\* start_monitoring spawned has ended, so none takes a step afterwards.
C2_StopWaitsForThreads ==
    lastCall.op = "stop" => threads = <<>>

\* C3: every call of _process_log_line, whatever other threads do meanwhile,
\* ends with its entry at the tail of log_buffer.
C3_EnqueueNeverFails ==
    [][\A t \in Tids :
          Finished(t) =>
             /\ log_buffer' # <<>>
             /\ log_buffer'[Len(log_buffer')].id = FinishedId(t)]_vars

\* C4: every call of _process_log_line goes on to _send_alert with a
\* critical alert if its line is critical, and only then, whether or not
\* the buffer is full and whatever other threads do meanwhile.
C4_AlertIffCritical ==
    [][\A t \in Tids :
          (Finished(t) /\ (Enqueuing(threads[t]) \/ log_buffer' # <<>>)) =>
             (FinishedCritical(t) <=>
                 /\ threads'[t].pc = "send"
                 /\ threads'[t].alert.kind = "critical")]_vars

\* the ids of the entries of a queue, head first
Ids(q) == [k \in 1..Len(q) |-> q[k].id]

\* C5: once one thread has ended more than MaxSize enqueues in a row, no
\* other thread having put to or got from the queue in between, log_buffer
\* holds exactly the last MaxSize entries processed, oldest first.
C5_FifoEviction ==
    \A t \in Tids :
        (threads[t].solo > MaxSize /\ ~Enqueuing(threads[t])) =>
            Ids(log_buffer) = [k \in 1..MaxSize |-> clock - MaxSize + k]

C5_Witness ==
    \E t \in Tids :
        /\ threads[t].solo > MaxSize
        /\ ~Enqueuing(threads[t])
        /\ Len(log_buffer) = MaxSize
        /\ clock > MaxSize

\* C6: in every reachable state log_buffer holds at most maxsize entries.
C6_BufferBounded == Len(log_buffer) <= MaxSize

C6_Witness ==
    /\ Len(log_buffer) = MaxSize
    /\ \E t \in Tids : threads[t].pc = "evict"
    /\ \E t \in Tids : threads[t].kind = "analysis" /\ threads[t].pc = "get"

\* C7: start_monitoring while monitoring is true spawns no thread and leaves
\* the flag, the buffer, the patterns and the callbacks as they were.
C7_StartWhileActive ==
    [][\/ ~monitoring
       \/ UNCHANGED <<monitoring, threads, log_buffer, critical_patterns,
                      alert_callbacks>>
       \/ \A a \in StartArgs : ~start_monitoring(a)]_vars

C7_Witness ==
    /\ lastCall.op = "start"
    /\ lastCall.active
    /\ monitoring
    /\ threads # <<>>
    /\ alert_callbacks # <<>>

\* the number of threads of kind and path among ths
Count(ths, kind, path) ==
    Cardinality({k \in DOMAIN ths : ths[k].kind = kind /\ ths[k].path = path})

\* the number of times path p is in the list
Times(log_paths, p) == Cardinality({k \in DOMAIN log_paths : log_paths[k] = p})

\* C8: start_monitoring from idle adds to the threads exactly one file
\* watcher per existing entry of log_paths when watch_files is set and none
\* otherwise, one system watcher iff watch_system, one Kubernetes watcher iff
\* watch_kubernetes, and one scheduler in every case.
C8_StartSpawns ==
    [][(~monitoring /\ monitoring') =>
          \A a \in StartArgs :
             start_monitoring(a) =>
                LET new == SubSeq(threads', Len(threads) + 1, Len(threads'))
                IN  /\ SubSeq(threads', 1, Len(threads)) = threads
                    /\ \A p \in Paths :
                          Count(new, "file", p) =
                             IF a.watch_files /\ p \in a.exists
                             THEN Times(a.log_paths, p) ELSE 0
                    /\ Count(new, "system", "") = (IF a.watch_system THEN 1 ELSE 0)
                    /\ Count(new, "k8s", "") = (IF a.watch_kubernetes THEN 1 ELSE 0)
                    /\ Count(new, "analysis", "") = 1
                    /\ Len(new) = Count(new, "system", "") + Count(new, "k8s", "")
                                    + Count(new, "analysis", "")
                                    + Count(new, "file", "a.log")
                                    + Count(new, "file", "b.log")]_vars

C8_Witness ==
    /\ lastCall.op = "start"
    /\ ~lastCall.active
    /\ Len(threads) = 3
    /\ threads[1] = Thread("file", "a.log")
    /\ threads[2] = Thread("system", "")
    /\ threads[3] = Thread("analysis", "")

\* pattern p is in text s at offset k, the case of the letters of s aside
FoldedAt(p, s, k) ==
    \A j \in 1..Len(p) :
        \/ s[k + j] = p[j]
        \/ \E n \in 1..26 : s[k + j] = Upper[n] /\ p[j] = LowerOf[n]

FoldedIn(p, s) == \E k \in 0..(Len(s) - Len(p)) : FoldedAt(p, s, k)

\* C9: an entry is critical iff one of the patterns is in its line, the
\* case of the line's letters aside; the empty line is not critical,
\* "Connection refused by upstream" is, "all systems normal" is not.
C9_CriticalIffPattern ==
    \A k \in 1..Len(log_buffer) :
        LET e == log_buffer[k]
            patterns == PatternList(critical_patterns)
        IN  /\ e.critical <=>
                  \E n \in 1..Len(patterns) : FoldedIn(patterns[n], e.message)
            /\ e.message = <<>> => ~e.critical
            /\ e.message = ConnectionRefusedLine => e.critical
            /\ e.message = AllNormalLine => ~e.critical
            /\ e.level = (IF e.critical THEN "ERROR" ELSE "INFO")

C9_Witness ==
    /\ log_buffer # <<>>
    /\ log_buffer[1].message = <<"O", "o", "M">>
    /\ log_buffer[1].critical

\* the number of critical entries of a batch
CriticalIn(logs) == Cardinality({k \in DOMAIN logs : logs[k].critical})

C11_EveryCallbackOnce ==
    [][\A t \in Tids :
          (Stepped(t) /\ threads[t].pc = "send" /\ threads'[t].pc # "send") =>
             /\ threads'[t].sent =
                   [k \in 1..Len(alert_callbacks) |->
                       [to |-> k, kind |-> threads[t].alert.kind,
                        id |-> threads[t].alert.id]]
             /\ threads'[t].pc = threads[t].ret]_vars

C11_Witness ==
    /\ alert_callbacks = <<"raises", "ok">>
    /\ \E t \in Tids :
          /\ threads[t].pc # "send"
          /\ Len(threads[t].sent) = 2
          /\ threads[t].sent[2].to = 2

\* the number of alerts of a kind that callback k got from thread th
Received(th, k, kind) ==
    Cardinality({n \in DOMAIN th.got : th.got[n].to = k /\ th.got[n].kind = kind})

\* every line appended has been processed and drained, and no thread is in
\* the middle of a line, a cycle or an alert
Settled(n) ==
    /\ clock = n
    /\ log_buffer = <<>>
    /\ threads # <<>>
    /\ \A t \in Tids : threads[t].pc \in {"loop", "read"}

\* C12 as stated: with one file, alert_threshold = 2 and a collaborator that
\* returns its text, once two lines matching "error" have been appended and
\* the scheduler has drained them, every observer has got two CRITICAL
\* alerts and exactly one ANALYSIS alert, wherever the drains fell.
C12_TwoCriticalOneAnalysis ==
    Settled(2) =>
        \A k \in 1..Len(alert_callbacks) :
            /\ \E t \in Tids : Received(threads[t], k, "critical") = 2
            /\ \E t \in Tids : Received(threads[t], k, "analysis") = 1

\* C12 as amended: every observer gets one CRITICAL alert per line, and a
\* cycle sends the ANALYSIS alert, once to every observer, exactly when its
\* batch holds alert_threshold critical entries or more: one alert if both
\* entries are drained in the same cycle, none if a drain falls between them.
C12_AnalysisPerBatch ==
    [][/\ \A t \in Tids :
             (Stepped(t) /\ threads[t].kind = "analysis"
                         /\ threads[t].pc = "analyze") =>
                IF CriticalIn(threads[t].logs) >= alert_threshold
                THEN /\ threads'[t].pc = "send"
                     /\ threads'[t].alert.kind = "analysis"
                     /\ threads'[t].got = threads[t].got
                ELSE /\ threads'[t].pc = "loop"
                     /\ threads'[t].got = threads[t].got
       /\ \A t \in Tids :
             (Stepped(t) /\ threads[t].kind = "analysis"
                         /\ threads[t].pc = "send" /\ threads'[t].pc # "send") =>
                threads'[t].sent =
                   [k \in 1..Len(alert_callbacks) |->
                       [to |-> k, kind |-> "analysis", id |-> 0]]
       /\ \A n \in 0..MaxAppended :
             Settled(n)' =>
                \A k \in 1..Len(alert_callbacks) :
                    \E t \in Tids : Received(threads'[t], k, "critical") = n]_vars

C12_Witness ==
    /\ Settled(2)
    /\ alert_callbacks = <<"raises", "ok">>
    /\ \E t \in Tids : Received(threads[t], 2, "critical") = 2
    /\ \E t \in Tids : Received(threads[t], 2, "analysis") = 1

\* the entry of the call of _process_log_line that thread t makes with
\* this step
Processed(t) ==
    IF Enqueuing(threads'[t]) THEN threads'[t].entry
    ELSE log_buffer'[Len(log_buffer')]

\* C13: a sample above the limit (95 is the one the model draws) makes the
\* system watcher produce an entry of level ERROR with critical true, whose
\* message contains "95", and send one CRITICAL alert with it.
C13_MetricAlert ==
    [][\A t \in Tids :
          (Stepped(t) /\ threads[t].kind = "system" /\ clock' = clock + 1) =>
             /\ Processed(t).source = <<"system:metrics">>
             /\ Contains(<<"9", "5">>, Processed(t).message)
             /\ Processed(t).level = "ERROR"
             /\ Processed(t).critical
             /\ \/ Enqueuing(threads'[t])
                \/ /\ threads'[t].pc = "send"
                   /\ threads'[t].alert.kind = "critical"
                   /\ threads'[t].alert.content = Processed(t).message]_vars

\* C14: the drain of an empty log_buffer ends with the batch as it is and
\* without an error, and a cycle whose batch is empty calls neither the
\* analyzer nor a callback and goes back to the head of the loop.
C14_EmptyBatch ==
    [][\A t \in Tids :
          (Stepped(t) /\ threads[t].kind = "analysis") =>
             /\ (threads[t].pc \in {"drain", "get"} /\ log_buffer = <<>>) =>
                   /\ threads'[t].pc = "analyze"
                   /\ threads'[t].logs = threads[t].logs
                   /\ log_buffer' = <<>>
             /\ (threads[t].pc = "analyze" /\ threads[t].logs = <<>>) =>
                   /\ threads'[t].pc = "loop"
                   /\ threads'[t].calls = 0
                   /\ threads'[t].got = threads[t].got]_vars

C14_Witness ==
    /\ alert_threshold = 0
    /\ alert_callbacks # <<>>
    /\ log_buffer = <<>>
    /\ \E t \in Tids :
          /\ threads[t].kind = "analysis"
          /\ threads[t].pc = "analyze"
          /\ threads[t].logs = <<>>

\* C15: monitoring goes from true to false with a call of stop_monitoring
\* and with nothing else; and while it is true a step ends no thread but
\* the one that takes it, which then is a file watcher whose Popen failed
\* or the watcher of the pods that found no kubectl: an error of psutil, of
\* the collaborator or of an observer ends no thread at all.
C15_OnlyStopStops ==
    [][/\ (monitoring /\ ~monitoring') => stop_monitoring
       /\ (monitoring /\ threads' # threads /\ Len(threads') <= Len(threads)) =>
             \/ /\ Len(threads') = Len(threads)
                /\ \A t \in Tids : threads'[t].kind = threads[t].kind
             \/ \E t \in Tids :
                   /\ threads' = Ended(t)
                   /\ \/ threads[t].kind = "file" /\ threads[t].pc = "begin"
                      \/ threads[t].kind = "k8s" /\ threads[t].pc = "run"]_vars

C15_Witness ==
    /\ monitoring
    /\ alert_callbacks # <<>>
    /\ Len(threads) = 1
    /\ threads[1].kind = "analysis"
    /\ threads[1].logs # <<>>
    /\ threads[1].logs[1].critical

\* the scheduler is at the head of its loop after a cycle in which it
\* called the collaborator
CycleOver ==
    \E t \in Tids : /\ threads[t].kind = "analysis"
                    /\ threads[t].pc = "loop"
                    /\ threads[t].calls = 1

\* the scheduler has begun a cycle
CycleBegun ==
    \E t \in Tids : threads[t].kind = "analysis" /\ threads[t].pc = "drain"

\* C16: the step of a cycle in which the collaborator is called either
\* begins the ANALYSIS alert (the collaborator returned its text) or, the
\* collaborator having raised or returned nothing, calls no callback and
\* takes the scheduler, which is still there, back to the head of its loop;
\* and from there, unless monitoring has become false, a further cycle
\* begins.
C16_FailedAnalysisGoesOn ==
    /\ [][\A t \in Tids :
             (threads[t].kind = "analysis" /\ threads[t].pc = "analyze") =>
                /\ Len(threads') = Len(threads)
                /\ Stepped(t) =>
                      \/ /\ threads'[t].pc = "send"
                         /\ threads'[t].calls = 1
                         /\ threads'[t].alert.kind = "analysis"
                      \/ /\ threads'[t].pc = "loop"
                         /\ threads'[t].alert.kind = "none"
                         /\ threads'[t].got = threads[t].got]_vars
    /\ (CycleOver ~> (CycleBegun \/ ~monitoring))

C16_Witness ==
    /\ CycleOver
    /\ monitoring
    /\ alert_callbacks # <<>>
    /\ \E t \in Tids : threads[t].kind = "analysis" /\ threads[t].got = <<>>

\* the title without the emoji
LogAnalysisUpdate ==
    <<"L","O","G"," ","A","N","A","L","Y","S","I","S"," ","U","P","D","A","T","E">>

\* C17: the step of a cycle in which the collaborator returns its text
\* begins one alert, whose content is that text and whose title is
\* "LOG ANALYSIS UPDATE", and the cycle sends no other alert before it is
\* back at the head of the loop.
C17_AnalysisAlert ==
    [][\A t \in Tids :
          (Stepped(t) /\ threads[t].kind = "analysis") =>
             /\ (threads[t].pc = "analyze" /\ threads'[t].pc = "send") =>
                   /\ threads'[t].alert.kind = "analysis"
                   /\ threads'[t].alert.content = AnalysisText
                   /\ threads'[t].alert.title = LogAnalysisUpdate
             /\ (threads[t].pc = "send" /\ threads'[t].pc # "send") =>
                   threads'[t].pc = "loop"]_vars

\* C18: the batch of a cycle never holds more than buffer_size entries; a
\* get_nowait of the scheduler takes the entry at the head of log_buffer
\* and puts it at the end of the batch, or, log_buffer being empty, ends
\* the drain at once with the batch as it is; and no other step of the
\* scheduler touches log_buffer.
C18_DrainUpTo ==
    [][\A t \in Tids :
          (Stepped(t) /\ threads[t].kind = "analysis") =>
             /\ Len(threads'[t].logs) <= buffer_size
             /\ IF threads[t].pc = "get"
                THEN IF log_buffer # <<>>
                     THEN /\ threads'[t].logs =
                                Append(threads[t].logs, Head(log_buffer))
                          /\ log_buffer' = Tail(log_buffer)
                          /\ threads'[t].pc = "drain"
                     ELSE /\ threads'[t].logs = threads[t].logs
                          /\ log_buffer' = log_buffer
                          /\ threads'[t].pc = "analyze"
                ELSE /\ log_buffer' = log_buffer
                     /\ threads'[t].logs \in {threads[t].logs, <<>>}]_vars

C18_Witness ==
    \E t \in Tids :
        /\ threads[t].kind = "analysis"
        /\ threads[t].pc = "analyze"
        /\ Len(threads[t].logs) = buffer_size
        /\ log_buffer # <<>>
        /\ threads[t].logs[1].id < log_buffer[1].id

\* C19: get_status can be called in every state; a call of it leaves the
\* controller and its threads as they are and returns the value of
\* monitoring, the number of entries in log_buffer and the number of
\* callbacks registered, as they are at the call.
C19_StatusReadsOnly ==
    [][/\ ENABLED get_status
       /\ (lastCall' # lastCall /\ lastCall'.op = "status") =>
             /\ UNCHANGED <<monitoring, log_buffer, alert_callbacks,
                            critical_patterns, observer, buffer_size,
                            alert_threshold, threads, clock>>
             /\ lastCall'.result = "returned"
             /\ lastCall'.status.monitoring = monitoring
             /\ lastCall'.status.buffer_size = Len(log_buffer)
             /\ lastCall'.status.alert_callbacks = Len(alert_callbacks)]_vars

\* the status has been asked for before the start, while running with
\* entries in log_buffer, and after the stop
C19_Witness ==
    /\ lastCall.op = "status"
    /\ lastCall.status.monitoring
    /\ lastCall.status.buffer_size = 2
    /\ lastCall.status.alert_callbacks = 1
    /\ buffer_size = 2

C19_WitnessIdle ==
    /\ lastCall.op = "status"
    /\ ~lastCall.status.monitoring
    /\ observer.stopped
    /\ log_buffer # <<>>

\* the watcher of the pods is among the threads
WatchesPods == \E t \in Tids : threads[t].kind = "k8s"

\* C20: on a machine without kubectl, the step in which the watcher of the
\* pods runs kubectl ends that thread and nothing else: monitoring stays
\* true and every other thread is as it was and stays among the threads as
\* long as monitoring is true; and once the watcher has ended it is not
\* there again, so that kubectl is run once at most.
C20_KubectlMissing ==
    [][/\ \A t \in Tids :
             (/\ monitoring
              /\ threads[t].kind = "k8s"
              /\ threads[t].pc = "run"
              /\ (Stepped(t) \/ Len(threads') < Len(threads))) =>
                /\ threads' = Ended(t)
                /\ monitoring'
       /\ (monitoring /\ monitoring') =>
             \A t \in Tids :
                threads[t].kind # "k8s" =>
                   \E u \in DOMAIN threads' :
                      /\ threads'[u].kind = threads[t].kind
                      /\ threads'[u].path = threads[t].path
       /\ (lastCall.op # "none" /\ ~WatchesPods) => ~WatchesPods']_vars

C20_Witness ==
    /\ monitoring
    /\ ~WatchesPods
    /\ \E t \in Tids : threads[t].kind = "file" /\ threads[t].pc = "read"
    /\ \E t \in Tids : threads[t].kind = "system" /\ threads[t].pc = "disk"
    /\ \E t \in Tids : threads[t].kind = "analysis" /\ threads[t].pc = "analyze"

\* C21: there is never more than one thread of _continuous_analysis, so
\* that log_buffer is drained by one thread at any time, whatever calls of
\* stop_monitoring and start_monitoring have been made.
C21_OneScheduler ==
    Cardinality({t \in Tids : threads[t].kind = "analysis"}) <= 1

\* stop_monitoring has been called and the monitor is not running
Stopping == ~monitoring /\ lastCall.op = "stop"

\* C22: a thread ends only at the test of its loop, monitoring being false,
\* or by the error that ends its own loop (Popen, a missing kubectl): it is
\* never ended in the middle of an iteration; and once stop_monitoring has
\* set monitoring to false, no start following, every thread ends.
C22_StopEndsThreads ==
    /\ [][Len(threads') < Len(threads) =>
             \E t \in Tids :
                /\ threads' = Ended(t)
                /\ \/ threads[t].pc = "loop" /\ ~monitoring
                   \/ threads[t].kind = "file" /\ threads[t].pc = "begin"
                   \/ threads[t].kind = "k8s" /\ threads[t].pc = "run"]_vars
    /\ (Stopping ~> (threads = <<>>))

\* the monitor is stopped while the file watcher is about to read, the
\* system watcher samples and the scheduler is in its drain
C22_Witness ==
    /\ Stopping
    /\ clock > 0
    /\ \E t \in Tids : threads[t].kind = "file" /\ threads[t].pc = "read"
    /\ \E t \in Tids : threads[t].kind = "system" /\ threads[t].pc = "mem"
    /\ \E t \in Tids : threads[t].kind = "k8s" /\ threads[t].pc = "run"
    /\ \E t \in Tids : threads[t].kind = "analysis" /\ threads[t].pc = "get"

\* the ids of a set of positions of a queue or a batch
IdSet(q) == {q[k].id : k \in DOMAIN q}

\* C23: the scheduler puts nothing into log_buffer, which after each of its
\* steps is what it was or its tail; every cycle begins with an empty batch
\* and ends with an empty batch, whether the analyzer was called or not, a
\* batch below alert_threshold ending without a call; and no entry of the
\* batch is in log_buffer: an entry drained is in one batch and no later one.
C23_BatchDiscarded ==
    [][\A t \in Tids :
          (Stepped(t) /\ threads[t].kind = "analysis") =>
             /\ \/ log_buffer' = log_buffer
                \/ log_buffer # <<>> /\ log_buffer' = Tail(log_buffer)
             /\ IdSet(threads'[t].logs) \cap IdSet(log_buffer') = {}
             /\ threads[t].pc = "loop" => threads'[t].logs = <<>>
             /\ threads[t].pc = "analyze" =>
                   /\ threads'[t].logs = <<>>
                   /\ log_buffer' = log_buffer
                   /\ CriticalIn(threads[t].logs) < alert_threshold =>
                         /\ threads'[t].pc = "loop"
                         /\ threads'[t].calls = 0]_vars

\* a batch of one critical entry is about to be discarded, the threshold
\* being 2, while a second critical entry waits in log_buffer
C23_Witness ==
    /\ alert_threshold = 2
    /\ log_buffer # <<>>
    /\ log_buffer[1].critical
    /\ \E t \in Tids :
          /\ threads[t].kind = "analysis"
          /\ threads[t].pc = "analyze"
          /\ CriticalIn(threads[t].logs) = 1

\* the entries of q that have the same source are in the order in which
\* they were produced
InOrder(q) ==
    \A i, j \in DOMAIN q :
        (i < j /\ q[i].source = q[j].source) => q[i].id < q[j].id

\* C24: the entries of one watcher are in log_buffer, and in the batch of a
\* cycle, in the order in which the watcher produced them, and those of
\* them that the cycle has drained were produced before those still in
\* log_buffer, whatever the other watchers put and evict in between.
C24_FifoPerProducer ==
    /\ InOrder(log_buffer)
    /\ \A t \in Tids :
          threads[t].kind = "analysis" => InOrder(threads[t].logs \o log_buffer)

\* a batch and log_buffer hold entries of one watcher while the other
\* watcher, having evicted an entry, is about to put its own
C24_Witness ==
    \E t \in Tids :
        /\ threads[t].kind = "analysis"
        /\ threads[t].logs # <<>>
        /\ log_buffer # <<>>
        /\ log_buffer[1].source = threads[t].logs[1].source
        /\ \E u \in Tids :
              /\ threads[u].pc = "reput"
              /\ threads[u].entry.source # log_buffer[1].source

\* C25: the list a cycle passes to the collaborator has one element for
\* every entry of the batch, critical or not, in the order of the batch,
\* and each element is the timestamp, the level, the message and the source
\* of its entry and nothing else.
C25_FormattedLogs ==
    [][\A t \in Tids :
          (/\ Stepped(t)
           /\ threads[t].kind = "analysis"
           /\ threads[t].pc = "analyze"
           /\ threads'[t].calls = 1) =>
              LET logs == threads[t].logs
                  arg  == threads'[t].asked
              IN  /\ Len(arg) = Len(logs)
                  /\ \A k \in DOMAIN logs :
                        /\ DOMAIN arg[k] = {"timestamp", "level", "message", "source"}
                        /\ arg[k].timestamp = logs[k].id
                        /\ arg[k].level = logs[k].level
                        /\ arg[k].message = logs[k].message
                        /\ arg[k].source = logs[k].source]_vars

\* the collaborator has been passed a critical entry followed by one that
\* is not
C25_Witness ==
    \E t \in Tids :
        /\ threads[t].kind = "analysis"
        /\ Len(threads[t].asked) = 2
        /\ threads[t].asked[1].level = "ERROR"
        /\ threads[t].asked[2].level = "INFO"

\* the source a watcher gives its entries
Tag(th) ==
    CASE th.kind = "file"   -> <<"file:", th.path>>
      [] th.kind = "system" -> <<"system:metrics">>
      [] th.kind = "k8s"    -> <<"kubernetes">>

\* C26: the entry put into log_buffer is critical iff one of the patterns
\* is in its message, the case of the letters aside; every entry of
\* log_buffer has the level ERROR if it is critical and INFO if it is not,
\* and the tag of a watcher as its source; and the entry a watcher produces
\* has that watcher's tag.
C26_EntryShape ==
    [][/\ Len(log_buffer') > Len(log_buffer) =>
             LET e == log_buffer'[Len(log_buffer')]
                 patterns == PatternList(critical_patterns)
             IN  e.critical <=>
                    \E n \in 1..Len(patterns) : FoldedIn(patterns[n], e.message)
       /\ \A k \in DOMAIN log_buffer' :
             LET e == log_buffer'[k]
             IN  /\ e.level = (IF e.critical THEN "ERROR" ELSE "INFO")
                 /\ e.source \in {<<"file:", p>> : p \in Paths}
                                    \cup {<<"system:metrics">>, <<"kubernetes">>}
       /\ \A t \in Tids :
             (Stepped(t) /\ clock' = clock + 1) =>
                Processed(t).source = Tag(threads[t])]_vars

\* log_buffer holds an entry of the system watcher and nothing else
C26_Witness ==
    /\ Len(log_buffer) = 1
    /\ log_buffer[1].source = <<"system:metrics">>
    /\ log_buffer[1].level = "INFO"

\* the text of a metric's message up to the value
MetricPrefix(m) ==
    CASE m = "cpu"  -> CpuPrefix
      [] m = "mem"  -> MemoryPrefix
      [] m = "disk" -> DiskPrefix

\* C27: a sample of the system watcher produces one entry, of the metric
\* sampled and of its value, if the value is above 90, and none if it is 90
\* or less; the metrics are sampled in the order CPU, memory, disk; and the
\* watcher produces nothing at the head of its loop, between two cycles.
C27_OneEntryPerMetric ==
    [][\A t \in Tids :
          threads[t].kind = "system" =>
             /\ \A v \in LimitValues :
                   SystemSample(t, v) =>
                      LET m == threads[t].pc
                      IN  /\ (v > 90) <=> (clock' = clock + 1)
                          /\ (v <= 90) <=> (clock' = clock /\ log_buffer' = log_buffer)
                          /\ v > 90 =>
                                /\ Processed(t).message
                                      = MetricPrefix(m) \o Digits(v) \o <<".", "0", "%">>
                                /\ Processed(t).source = <<"system:metrics">>
                          /\ IF Enqueuing(threads'[t])
                             THEN threads'[t].ret = NextMetric(m)
                             ELSE threads'[t].pc = NextMetric(m)
             /\ (Stepped(t) /\ threads[t].pc = "loop") =>
                   /\ threads'[t].pc = "cpu"
                   /\ clock' = clock
                   /\ log_buffer' = log_buffer]_vars

\* the last metric of a cycle is being sampled after the first two were
\* reported
C27_Witness ==
    /\ clock = 2
    /\ Len(log_buffer) = 2
    /\ log_buffer[1].message = CpuPrefix \o <<"9", "1", ".", "0", "%">>
    /\ log_buffer[2].message = MemoryPrefix \o <<"9", "1", ".", "0", "%">>
    /\ \E t \in Tids : threads[t].kind = "system" /\ threads[t].pc = "disk"

\* C28: whenever the watcher of the pods is about to run kubectl, it has
\* been in time.sleep(self.scan_interval) since it last ran it, whichever
\* way that run ended.
C28_SleepsBetweenRuns ==
    \A t \in Tids :
        (threads[t].kind = "k8s" /\ threads[t].pc = "run") => threads[t].slept

\* the call of callback k with the alert that thread th is sending
CallOf(th, k) == [to |-> k, kind |-> th.alert.kind, id |-> th.alert.id]

\* C29 as stated: an alert goes only to the observers that were registered
\* at the moment its dispatch began, each of them at most once; one
\* registered later never receives it.
C29_OnlyRegisteredAtStart ==
    \A t \in Tids :
        threads[t].pc = "send" =>
            /\ \A n \in DOMAIN threads[t].sent :
                  /\ threads[t].sent[n].to = n
                  /\ threads[t].sent[n].to <= threads[t].regs
            /\ threads[t].i <= threads[t].regs

\* C29 as amended: a call of an observer happens only in a step of a running
\* _send_alert, with that dispatch's alert, to the next observer of the list
\* as it is at that moment, so each observer gets the alert at most once and
\* an observer registered while the loop runs gets it too; when the dispatch
\* ends the alert is dropped, so an observer registered after the end never
\* receives it.
C29_DeliveredWhileDispatching ==
    [][\A t \in Tids :
          /\ threads'[t].got # threads[t].got =>
                /\ threads[t].pc = "send"
                /\ threads[t].i < Len(alert_callbacks)
                /\ threads'[t].got =
                      Append(threads[t].got, CallOf(threads[t], threads[t].i + 1))
                /\ threads'[t].sent =
                      Append(threads[t].sent, CallOf(threads[t], threads[t].i + 1))
                /\ threads'[t].i = threads[t].i + 1
          /\ threads'[t].pc = "send" =>
                /\ Len(threads'[t].sent) = threads'[t].i
                /\ \A n \in DOMAIN threads'[t].sent : threads'[t].sent[n].to = n
          /\ threads'[t].pc # "send" => threads'[t].alert = NoAlert
          /\ \A n \in DOMAIN threads'[t].got :
                threads'[t].got[n].to <= Len(alert_callbacks')]_vars

\* a dispatch ended after one call, a second observer was registered
\* afterwards, and it has received nothing
C29_Witness ==
    /\ Len(alert_callbacks) = 2
    /\ \E t \in Tids :
          /\ threads[t].pc # "send"
          /\ Len(threads[t].sent) = 1
          /\ \A u \in Tids :
                \A n \in DOMAIN threads[u].got : threads[u].got[n].to = 1

\* C30: a registration made while a _send_alert is running changes nothing
\* of that dispatch: when it ends, every observer that was registered when
\* it began has been called exactly once with its alert, in the order of
\* registration.
C30_RegisteredBeforeStillCalled ==
    [][/\ Len(alert_callbacks') > Len(alert_callbacks) => threads' = threads
       /\ \A t \in Tids :
             (threads[t].pc = "send" /\ threads'[t].pc # "send") =>
                /\ Len(threads'[t].sent) >= threads[t].regs
                /\ \A k \in 1..threads[t].regs :
                      /\ threads'[t].sent[k] = CallOf(threads[t], k)
                      /\ Cardinality({n \in DOMAIN threads'[t].sent :
                                         threads'[t].sent[n].to = k}) = 1]_vars

\* a dispatch that began with one observer, during which a second one was
\* registered, has called both and is about to end
C30_Witness ==
    \E t \in Tids :
        /\ threads[t].pc = "send"
        /\ threads[t].regs = 1
        /\ Len(alert_callbacks) = 2
        /\ threads[t].i = 2
        /\ threads[t].sent[1].to = 1

\* the entries made of a line processed in this step: put into the buffer,
\* or still held by the thread that found the buffer full
Entered ==
    {log_buffer'[k] : k \in {n \in DOMAIN log_buffer' : log_buffer'[n].id = clock'}}
        \cup {threads'[t].entry :
                 t \in {u \in DOMAIN threads' : threads'[u].entry.id = clock'}}

\* the patterns a constructor has added to those of __init__
AddedPatterns(names) == PatternList(Tail(names))

\* C31: the patterns change only before the monitor is started: a step that
\* changes critical_patterns appends to the list of __init__ while
\* monitoring is false and no thread has been spawned; whenever monitoring
\* is true every default pattern is in the list and no step changes it; and
\* a line that holds an added pattern, the case of its letters aside, is
\* made a critical entry of level ERROR.
C31_PatternsSetBeforeStart ==
    [][/\ critical_patterns' # critical_patterns =>
             /\ ~monitoring /\ ~monitoring'
             /\ threads = <<>> /\ threads' = <<>>
             /\ Len(critical_patterns') > Len(critical_patterns)
             /\ SubSeq(critical_patterns', 1, Len(critical_patterns))
                   = critical_patterns
       /\ monitoring => critical_patterns' = critical_patterns
       /\ monitoring' =>
             \A k \in DOMAIN DefaultPatterns :
                 \E n \in DOMAIN PatternList(critical_patterns') :
                     PatternList(critical_patterns')[n] = DefaultPatterns[k]
       /\ clock' = clock + 1 =>
             \A e \in Entered :
                 (\E n \in DOMAIN AddedPatterns(critical_patterns) :
                      FoldedIn(AddedPatterns(critical_patterns)[n], e.message))
                    => e.critical /\ e.level = "ERROR"]_vars

\* the deployment monitor is running and holds the critical entry of a line
\* "Rollback", which matches no default pattern
C31_Witness ==
    /\ monitoring
    /\ critical_patterns = <<"default", "deployment">>
    /\ \E k \in DOMAIN log_buffer :
          /\ log_buffer[k].message = <<"R","o","l","l","b","a","c","k">>
          /\ log_buffer[k].critical
          /\ ~critical_found(log_buffer[k].message, DefaultPatterns)

\* the number of times entry id is in a queue or a batch
TimesIn(q, id) == Cardinality({k \in DOMAIN q : q[k].id = id})

RECURSIVE InBatches(_, _)
\* the number of times entry id is in the batches of the threads
InBatches(ths, id) ==
    IF ths = <<>> THEN 0
    ELSE TimesIn(Head(ths).logs, id) + InBatches(Tail(ths), id)

\* the number of places entry id is held in: log_buffer and the batches
Held(q, ths, id) == TimesIn(q, id) + InBatches(ths, id)

\* a watcher has made entry id and has not put it yet, the buffer being full
Waiting(id) ==
    \E t \in Tids : Enqueuing(threads[t]) /\ threads[t].entry.id = id

\* C32: an entry is in one place at most, log_buffer or one batch; an entry
\* a watcher still has to put is in none; an entry that has left log_buffer
\* and whose batch is over never comes back, neither to log_buffer nor to a
\* batch; and a batch is handed to the collaborator in the step that ends
\* it, once.  So no entry is drained or analysed twice, with several
\* schedulers and with evictions.
C32_DrainedOnce ==
    [][/\ \A id \in 1..clock' : Held(log_buffer', threads', id) <= 1
       /\ \A id \in 1..clock :
             /\ Waiting(id) => Held(log_buffer, threads, id) = 0
             /\ (Held(log_buffer, threads, id) = 0 /\ ~Waiting(id)) =>
                   Held(log_buffer', threads', id) = 0
       /\ \A t \in Tids :
             (Stepped(t) /\ threads[t].kind = "analysis") =>
                /\ threads[t].pc \in {"drain", "get", "send"} =>
                      threads'[t].asked = threads[t].asked
                /\ threads[t].pc = "analyze" =>
                      /\ threads'[t].logs = <<>>
                      /\ threads'[t].asked \in {<<>>, formatted_logs(threads[t].logs)}
                      /\ threads'[t].calls <= 1]_vars

\* two schedulers hold a batch each while a watcher that found the buffer
\* full is about to evict
C32_Witness ==
    /\ \E t, u \in Tids :
          /\ t # u
          /\ threads[t].kind = "analysis" /\ threads[t].logs # <<>>
          /\ threads[u].kind = "analysis" /\ threads[u].logs # <<>>
    /\ \E w \in Tids : threads[w].kind = "file" /\ threads[w].pc = "evict"

\* C33: issue_count is 0 and last_analysis is None in every state, whatever
\* has been processed, dispatched, started or stopped, and that is what
\* get_status reports.
C33_TrackingNeverUpdated ==
    /\ issue_count = 0
    /\ last_analysis = "None"
    /\ lastCall.op = "status" =>
          /\ lastCall.status.issue_count = 0
          /\ lastCall.status.last_analysis = "None"

\* the status is asked for after the stop, CRITICAL alerts and an ANALYSIS
\* alert having been delivered
C33_Witness ==
    /\ lastCall.op = "status"
    /\ observer.stopped
    /\ \E t \in Tids : Received(threads[t], 1, "critical") = 2
    /\ \E t \in Tids : Received(threads[t], 1, "analysis") = 1

\* C34: a step of stop_monitoring leaves monitoring false, whether the call
\* returns or raises at the join of the observer, and the flag is false in
\* every state whose last call is a stop.
C34_StopClearsFlag ==
    [][/\ stop_monitoring =>
             /\ ~monitoring'
             /\ lastCall'.op = "stop"
             /\ lastCall'.result \in {"returned", "RuntimeError"}
       /\ lastCall'.op = "stop" => ~monitoring']_vars

\* stop_monitoring was called on a running monitor and raised: the flag is
\* false and the threads, which are still there, have yet to see it
C34_Witness ==
    /\ lastCall.op = "stop"
    /\ lastCall.active
    /\ lastCall.result = "RuntimeError"
    /\ ~monitoring
    /\ threads # <<>>

\* C35: the alert of an entry begins in the step that ends the enqueue of
\* that entry (the first put_nowait went through, or the second one did, or
\* the eviction found the queue empty), no observer having been called for
\* it before; every call of an observer is made by a thread that is in
\* _send_alert, after that step, and touches neither log_buffer nor the
\* input; and a watcher in _send_alert keeps its entry and reads no line
\* until it has called every observer and is back in its loop.
C35_EnqueueBeforeAlert ==
    [][\A t \in Tids :
          (Len(threads') = Len(threads) /\ threads[t].kind = "file") =>
             /\ (threads[t].pc # "send" /\ threads'[t].pc = "send") =>
                   /\ threads'[t].alert.kind = "critical"
                   /\ threads'[t].alert.id = threads'[t].entry.id
                   /\ threads'[t].entry.critical
                   /\ threads'[t].got = threads[t].got
                   /\ \/ /\ threads[t].pc = "read"
                         /\ clock' = clock + 1
                         /\ threads'[t].entry.id = clock'
                         /\ log_buffer' = Append(log_buffer, threads'[t].entry)
                      \/ /\ threads[t].pc = "reput"
                         /\ threads'[t].entry = threads[t].entry
                         /\ log_buffer' = Append(log_buffer, threads[t].entry)
                      \/ /\ threads[t].pc = "evict"
                         /\ threads'[t].entry = threads[t].entry
                         /\ log_buffer = <<>> /\ log_buffer' = <<>>
             /\ threads'[t].got # threads[t].got =>
                   /\ threads[t].pc = "send"
                   /\ threads'[t].got[Len(threads'[t].got)].id = threads[t].entry.id
                   /\ log_buffer' = log_buffer
                   /\ clock' = clock
             /\ threads[t].pc = "send" =>
                   /\ threads'[t].pc \in {"send", "loop"}
                   /\ threads'[t].pc = "send" => threads'[t].entry = threads[t].entry
                   /\ threads'[t].pc = "loop" =>
                         Len(threads'[t].sent) = Len(alert_callbacks)
             /\ (clock' = clock + 1 /\ Stepped(t)) => threads[t].pc = "read"]_vars

\* an observer has been called for an entry, not one of the first, that is
\* at the tail of the full buffer, and the watcher is still in _send_alert
C35_Witness ==
    \E t \in Tids :
        /\ threads[t].kind = "file"
        /\ threads[t].pc = "send"
        /\ threads[t].i >= 1
        /\ clock > MaxSize
        /\ Len(log_buffer) = MaxSize
        /\ log_buffer[MaxSize].id = threads[t].entry.id

\* a call of start_monitoring or stop_monitoring is made in this step
StartOrStop ==
    /\ lastCall'.op \in {"start", "stop"}
    /\ lastCall' # lastCall \/ monitoring' # monitoring \/ observer' # observer

\* C36: start and stop change neither log_buffer nor the callbacks, the
\* callbacks stay registered, and the entries that are in log_buffer when
\* the monitor is stopped stay there as long as monitoring is false, to be
\* drained in the next run.
C36_KeptUntilNextRun ==
    [][/\ StartOrStop =>
             /\ log_buffer' = log_buffer
             /\ alert_callbacks' = alert_callbacks
       /\ SubSeq(alert_callbacks', 1, Len(alert_callbacks)) = alert_callbacks
       /\ ~monitoring => IdSet(log_buffer) \subseteq IdSet(log_buffer')]_vars

\* the number of times callback c is in the registry
Registered(c) ==
    Cardinality({k \in DOMAIN alert_callbacks : alert_callbacks[k] = c})

\* C37: every call of add_alert_callback makes the registry one longer, its
\* callback at the end, also when that callback is registered already;
\* nothing else changes the registry; and a _send_alert, when it ends, has
\* called as many observers as are registered, each callback as many times
\* as it is registered.
C37_RegistryOnlyGrows ==
    [][/\ \A c \in Callbacks :
             add_alert_callback(c) =>
                alert_callbacks' = Append(alert_callbacks, c)
       /\ alert_callbacks' # alert_callbacks =>
             /\ lastCall'.op = "add"
             /\ Len(alert_callbacks') = Len(alert_callbacks) + 1
             /\ SubSeq(alert_callbacks', 1, Len(alert_callbacks)) = alert_callbacks
       /\ \A t \in Tids :
             (Stepped(t) /\ threads[t].pc = "send" /\ threads'[t].pc # "send") =>
                /\ Len(threads'[t].sent) = Len(alert_callbacks)
                /\ \A c \in Callbacks :
                      Cardinality({k \in DOMAIN threads'[t].sent :
                                      alert_callbacks[threads'[t].sent[k].to] = c})
                         = Registered(c)]_vars

\* the same callback is registered twice and a _send_alert has called it
\* twice
C37_Witness ==
    /\ alert_callbacks = <<"ok", "ok">>
    /\ \E t \in Tids :
          /\ threads[t].pc # "send"
          /\ Len(threads[t].sent) = 2
          /\ threads[t].sent[1].to = 1
          /\ threads[t].sent[2].to = 2
          /\ threads[t].sent[1].id = threads[t].sent[2].id

\* C38: with alert_threshold above buffer_size no batch grows beyond
\* buffer_size entries, the step that ends a batch calls no collaborator,
\* and no thread ever holds or has delivered an ANALYSIS alert.
C38_ThresholdAboveLimit ==
    [][alert_threshold > buffer_size =>
          \A t \in Tids :
             /\ Len(threads'[t].logs) <= (IF buffer_size > 0 THEN buffer_size ELSE 0)
             /\ threads'[t].calls = 0
             /\ threads'[t].asked = <<>>
             /\ threads'[t].alert.kind # "analysis"
             /\ \A n \in DOMAIN threads'[t].got :
                   threads'[t].got[n].kind # "analysis"
             /\ (Stepped(t) /\ threads[t].pc = "analyze") =>
                   threads'[t].pc = "loop"]_vars

\* the threshold is 2 and the limit 1: the scheduler ends a batch that is
\* one critical entry, a second critical entry waiting in log_buffer
C38_Witness ==
    /\ alert_threshold = 2
    /\ buffer_size = 1
    /\ \E t \in Tids :
          /\ threads[t].kind = "analysis"
          /\ threads[t].pc = "analyze"
          /\ Len(threads[t].logs) = 1
          /\ threads[t].logs[1].critical
    /\ log_buffer # <<>>
    /\ log_buffer[1].critical

=============================================================================
